---- MODULE Spec2Model ----
(***************************************************************************)
(* Turn scheduler and combat resolution of the dungeon crawler.            *)
(*                                                                         *)
(* Scheduler, PriorityQueue, Entity and World are modelled operation by    *)
(* operation; the binary heap is the array heap of priorityQueue.js with   *)
(* its recursive _bubbleUp / _bubbleDown.                                  *)
(***************************************************************************)
EXTENDS Integers, Sequences, FiniteSets, TLC

(***************************************************************************)
(* Bounds of the model                                                     *)
(***************************************************************************)
\* latest logical timestamp an entry may be scheduled at
MaxTime == 1000
\* largest number of entries the heap array may hold
MaxHeap == 3
\* wall-clock milliseconds the combat model lets pass after StartNow
MaxElapsed == 6400
\* corpse objects that may be created for one monster
MaxCorpses == 2
\* effects that may be active on one actor at a time
MaxEffects == 1
\* health operations (effects, projectiles, rests, area changes) in one play
MaxSteps == 4
\* highest character level the skill model lets the player reach
MaxLevel == 2

(***************************************************************************)
(* Actors                                                                  *)
(***************************************************************************)
Player == "player"
Monsters == {"m1", "m2"}
Actors == {Player} \cup Monsters
NoEntity == "none"

\* speed.value of the character templates, in tenths (player 2, goblin 1, orc 0.8)
SpeedTenths(e) == IF e = Player THEN 20 ELSE IF e = "m1" THEN 10 ELSE 8

\* explicit delays handed to Scheduler.schedule (initial delays, delay overrides)
Delays == {0, 500}
NullDelay == -1

VARIABLES
    heap,         \* PriorityQueue.heap: sequence of [item, priority] nodes
    currentTime,  \* Scheduler.currentTime
    nextAction,   \* Entity.nextAction, per actor
    active,       \* Entity.active, per actor
    entities,     \* World.entities: actor ids registered in the world
    worldPlayer,  \* World.player (NoEntity when null)
    pos,          \* Entity.x / Entity.y, per actor
    now,          \* Date.now(), wall-clock milliseconds
    lastAttack,   \* 'lastAttack' component time, per actor (0: no component)
    health,       \* 'health' component [current, max], per actor, in tenths of a point
    stats,        \* 'stats' component, per actor
    equipment,    \* what combat reads of the 'equipment' component, per actor
    skills,       \* the player's 'skills' component
    level,        \* the player's 'level' component [value, experience]
    gold,         \* the player's 'gold' component amount
    corpses,      \* corpse entity objects created for each monster, in creation order
    corpseReg,    \* index of the corpse object registered in World.entities under
                  \* the id corpse_<monster> (0: none)
    swings,       \* currentFrame of each swing_animation entity in World.entities
    isResting,    \* player.isResting
    effects,      \* EffectSystem.activeEffects: per actor, the effects in order
    droppedGold,  \* number of gold item entities dropped into the world
    restTimers,   \* pending setTimeout callbacks of Game.startRestHealing
    notice,       \* 'notice' component [hasNoticed, noticeTimer], per monster
    isVisible,    \* 'visibility' component isVisible, per monster
    qualified,    \* history: per monster, the consecutive qualifying turns it has
                  \* taken since it was last unaware (0: none, capped at noticeDelay)
    gameOver,     \* Game.gameOver
    exits,        \* cells of World.map whose tile type is hallway_exit
    pushed,       \* history: the nodes now in the heap, in the order of their push
    steps,        \* history: number of health operations run so far
    deathCount,   \* history: number of handleDeath runs per actor
    projectile,   \* the projectile entity in flight and its 'projectile' component
    call          \* history: the last operation invoked and what it did

schedVars == <<heap, currentTime, nextAction, pushed>>
worldVars == <<active, entities, worldPlayer>>
noticeVars == <<notice, isVisible, qualified>>
combatVars == <<pos, now, lastAttack, health, stats, equipment, skills, level, gold,
                corpses, corpseReg, swings, isResting, effects, droppedGold,
                restTimers, notice, isVisible, qualified, gameOver, exits, steps,
                deathCount, projectile>>
vars == <<heap, currentTime, nextAction, active, entities, worldPlayer,
          pos, now, lastAttack, health, stats, equipment, skills, level, gold,
          corpses, corpseReg, swings, isResting, effects, droppedGold,
          restTimers, notice, isVisible, qualified, gameOver, exits, pushed, steps,
          deathCount, projectile, call>>

\* no projectile entity was created yet
NoProjectile ==
    [x |-> 0, y |-> 0, targetX |-> 0, targetY |-> 0, ownerId |-> NoEntity,
     damage |-> 0, range |-> 0, distanceTraveled |-> 0,
     active |-> FALSE, registered |-> FALSE, hits |-> 0]

NoCall == [op |-> "init", actor |-> NoEntity, target |-> NoEntity,
           ret |-> NoEntity, discarded |-> <<>>, prio |-> 0,
           ok |-> FALSE, resolved |-> FALSE, blocked |-> FALSE,
           damage |-> 0, hpBefore |-> 0, applied |-> 0, msgs |-> 0, obj |-> 0,
           amount |-> 0, skill |-> "none", prevLevel |-> 0,
           hitRoll |-> 0, blockRoll |-> 0, dodgeRoll |-> 0, raw |-> 0]

(***************************************************************************)
(* Character templates (CharacterGenerator) and item data                  *)
(***************************************************************************)
Max(a, b) == IF a >= b THEN a ELSE b
Min(a, b) == IF a <= b THEN a ELSE b
Abs(x) == IF x < 0 THEN -x ELSE x

\* m1 is a goblin, m2 an orc
TemplateStats(e) ==
    IF e = Player
    THEN [strength |-> 10, dexterity |-> 10, intelligence |-> 10,
          constitution |-> 10, agility |-> 15]
    ELSE IF e = "m1"
    THEN [strength |-> 12, dexterity |-> 14, intelligence |-> 6,
          constitution |-> 12, agility |-> 8]
    ELSE [strength |-> 16, dexterity |-> 10, intelligence |-> 4,
          constitution |-> 14, agility |-> 6]

\* health.max of the templates, in tenths of a point
TemplateMaxHealth(e) == IF e = Player THEN 500 ELSE IF e = "m1" THEN 100 ELSE 120

\* level.value of the monster templates
MonsterLevel(m) == IF m = "m1" THEN 1 ELSE 2

\* loot.gold of the monster templates
LootTable(m) == IF m = "m1" THEN [min |-> 1, max |-> 5] ELSE [min |-> 3, max |-> 10]

\* the player's starting sword; speed in hundredths
PlayerWeapon == [damage |-> 2, speed |-> 272]
\* rustyIronSword (goblin) and orcAxe (orc) of the item templates
MonsterWeapon(m) ==
    IF m = "m1" THEN [damage |-> 3, speed |-> 160] ELSE [damage |-> 4, speed |-> 133]

\* equipment as combat reads it: weapon in primary/weapon slot, summed armour
\* defense, shield in the secondary slot
PlayerEquipment(armor, shield) ==
    [weapon |-> TRUE, weaponDamage |-> PlayerWeapon.damage,
     weaponSpeed |-> PlayerWeapon.speed, armor |-> armor, shield |-> shield]
\* equipMonsterGear: the items land in primary/chest only on the legacy path
MonsterEquipment(m, equipped) ==
    [weapon |-> equipped, weaponDamage |-> IF equipped THEN MonsterWeapon(m).damage ELSE 0,
     weaponSpeed |-> IF equipped THEN MonsterWeapon(m).speed ELSE 100,
     armor |-> IF equipped THEN 1 ELSE 0, shield |-> FALSE]

\* 'notice' component of the monster templates
noticeDelay == 10
alertRange(m) == IF m = "m1" THEN 5 ELSE 6
NewNotice == [hasNoticed |-> FALSE, noticeTimer |-> 0]

SkillNames == {"1h_slash", "offense", "dodge", "block", "defense"}
NewSkill == [level |-> 0, experience |-> 0, maxExperience |-> 20]

StatNames == {"strength", "dexterity", "intelligence", "constitution"}

\* CharacterProgress.experienceTable
experienceTable ==
    <<0, 100, 250, 450, 700, 1000, 1350, 1750, 2200, 2700,
      3250, 3850, 4500, 5200, 5950, 6750, 7600, 8500, 9450, 10450>>

getExperienceForLevel(lv) ==
    IF lv <= 0 THEN 0
    ELSE IF lv > Len(experienceTable)
    THEN experienceTable[Len(experienceTable)] + (lv - Len(experienceTable)) * 500
    ELSE experienceTable[lv]

\* Date.now() at the start of the modelled play
StartNow == 30000
\* baseAttackSpeed of CombatSystem.attackTarget, milliseconds
baseAttackSpeed == 6400

(***************************************************************************)
(* The mutable game state as one record, so that handlers compose the way  *)
(* the calls do.  msgs counts the messages a handler emits.                *)
(***************************************************************************)
Cur ==
    [pos |-> pos, active |-> active, entities |-> entities, worldPlayer |-> worldPlayer,
     lastAttack |-> lastAttack, health |-> health, stats |-> stats,
     equipment |-> equipment, skills |-> skills, level |-> level, gold |-> gold, corpses |-> corpses,
     corpseReg |-> corpseReg, swings |-> swings, isResting |-> isResting,
     effects |-> effects, droppedGold |-> droppedGold,
     restTimers |-> restTimers, notice |-> notice, isVisible |-> isVisible,
     qualified |-> qualified, gameOver |-> gameOver, exits |-> exits,
     deathCount |-> deathCount, projectile |-> projectile,
     msgs |-> 0]

Commit(w) ==
    /\ pos' = w.pos
    /\ active' = w.active
    /\ entities' = w.entities
    /\ worldPlayer' = w.worldPlayer
    /\ lastAttack' = w.lastAttack
    /\ health' = w.health
    /\ stats' = w.stats
    /\ skills' = w.skills
    /\ level' = w.level
    /\ gold' = w.gold
    /\ corpses' = w.corpses
    /\ corpseReg' = w.corpseReg
    /\ swings' = w.swings
    /\ isResting' = w.isResting
    /\ effects' = w.effects
    /\ droppedGold' = w.droppedGold
    /\ restTimers' = w.restTimers
    /\ notice' = w.notice
    /\ isVisible' = w.isVisible
    /\ qualified' = w.qualified
    /\ gameOver' = w.gameOver
    /\ exits' = w.exits
    /\ deathCount' = w.deathCount
    /\ projectile' = w.projectile

(***************************************************************************)
(* World (on the state record)                                             *)
(***************************************************************************)
\* World.removeEntity for an actor id
removeEntity(w, e) ==
    IF e \in w.entities
    THEN [w EXCEPT !.active[e] = FALSE,
                   !.entities = @ \ {e},
                   !.worldPlayer = IF e = @ THEN NoEntity ELSE @]
    ELSE w

\* variant of removeCorpseEntity that leaves the registry alone
removeCorpseEntity_Keep(w, m) == w

\* World.removeEntity for the id corpse_<m>: acts on the object registered
\* under that id, whichever corpse object that is
removeCorpseEntity(w, m) ==
    IF w.corpseReg[m] # 0
    THEN [w EXCEPT !.corpses[m][w.corpseReg[m]].active = FALSE,
                   !.corpseReg[m] = 0]
    ELSE w

(***************************************************************************)
(* SkillsSystem                                                            *)
(***************************************************************************)
\* variant of skillLevelUps whose loop ignores the level cap
RECURSIVE skillLevelUps_NoCap(_, _)
skillLevelUps_NoCap(skill, maxSkillLevel) ==
    IF skill.experience >= skill.maxExperience
    THEN skillLevelUps_NoCap([level |-> skill.level + 1,
                              experience |-> skill.experience - skill.maxExperience,
                              maxExperience |-> (skill.maxExperience * 11) \div 10],
                             maxSkillLevel)
    ELSE skill

\* the while loop of gainSkillExperience
RECURSIVE skillLevelUps(_, _)
skillLevelUps(skill, maxSkillLevel) ==
    IF skill.experience >= skill.maxExperience /\ skill.level < maxSkillLevel
    THEN skillLevelUps([level |-> skill.level + 1,
                        experience |-> skill.experience - skill.maxExperience,
                        maxExperience |-> (skill.maxExperience * 11) \div 10],
                       maxSkillLevel)
    ELSE skill

\* only the player carries a 'skills' component (Game.init)
hasSkills(e) == e = Player

\* variant of gainSkillExperience without the early return at the cap
gainSkillExperience_NoCapReturn(w, e, skillName, experience) ==
    IF ~hasSkills(e) THEN w
    ELSE LET skill == w.skills[skillName]
             maxSkillLevel == w.level.value * 5
             s2 == skillLevelUps([skill EXCEPT !.experience = @ + experience],
                                 maxSkillLevel)
         IN [w EXCEPT !.skills[skillName] = s2,
                      !.msgs = IF s2.level > skill.level THEN @ + 1 ELSE @]

\* variant of gainSkillExperience whose cap ignores the owner's level
gainSkillExperience_CapFive(w, e, skillName, experience) ==
    IF ~hasSkills(e) THEN w
    ELSE LET skill == w.skills[skillName]
             maxSkillLevel == 5
         IN IF skill.level >= maxSkillLevel THEN w
            ELSE LET s2 == skillLevelUps([skill EXCEPT !.experience = @ + experience],
                                         maxSkillLevel)
                 IN [w EXCEPT !.skills[skillName] = s2,
                              !.msgs = IF s2.level > skill.level THEN @ + 1 ELSE @]

\* SkillsSystem.gainSkillExperience; the return value (leveledUp) is the
\* message counter having moved
gainSkillExperience(w, e, skillName, experience) ==
    IF ~hasSkills(e) THEN w
    ELSE LET skill == w.skills[skillName]
             maxSkillLevel == w.level.value * 5
         IN IF skill.level >= maxSkillLevel THEN w
            ELSE LET s2 == skillLevelUps([skill EXCEPT !.experience = @ + experience],
                                         maxSkillLevel)
                 IN [w EXCEPT !.skills[skillName] = s2,
                              !.msgs = IF s2.level > skill.level THEN @ + 1 ELSE @]

\* getSkillBonuses: damage and defense in tenths, dodgeChance in tenths of a
\* percent, blockChance in percent
getSkillBonuses(w, e, weapon) ==
    IF ~hasSkills(e)
    THEN [damage |-> 0, dodgeChance |-> 0, blockChance |-> 0, defense |-> 0]
    ELSE LET sk == w.skills
             shield == w.equipment[e].shield
         IN [damage |-> (IF weapon THEN sk["1h_slash"].level * 5 ELSE 0)
                         + sk["offense"].level * 3,
             dodgeChance |-> sk["dodge"].level * 15,
             blockChance |-> IF shield THEN sk["block"].level * 2 ELSE 0,
             defense |-> (IF shield THEN sk["block"].level * 3 ELSE 0)
                          + sk["defense"].level * 5]

(***************************************************************************)
(* EquipmentSystem                                                         *)
(***************************************************************************)
\* EquipmentSystem.calculateDamage: damage in tenths, swingSpeed in 1/10000
equipmentCalculateDamage(w, e) ==
    LET st == w.stats[e]
        eq == w.equipment[e]
        strengthBonus == (st.strength - 10) \div 2
        base0 == 10 + 10 * strengthBonus
        speed0 == 100 + (st.dexterity - 10) * 2
        base1 == IF eq.weapon
                 THEN base0 + 10 * eq.weaponDamage + getSkillBonuses(w, e, TRUE).damage
                 ELSE base0
        speed1 == IF eq.weapon THEN speed0 * eq.weaponSpeed ELSE speed0 * 100
    IN [damage |-> Max(10, base1), swingSpeed |-> Max(3000, Min(20000, speed1))]

\* EquipmentSystem.calculateDefense, in tenths
calculateDefense(w, e) ==
    LET st == w.stats[e]
        eq == w.equipment[e]
    IN Max(0, 10 * ((st.constitution - 10) \div 5) + 10 * eq.armor
              + getSkillBonuses(w, e, FALSE).defense)

(***************************************************************************)
(* PriorityQueue (priorityQueue.js).  Indices are the 0-based indices of   *)
(* the JavaScript array; the TLA+ sequence holds index i at position i+1.  *)
(***************************************************************************)
At(h, i) == h[i + 1]
Swap(h, i, j) == [h EXCEPT ![i + 1] = h[j + 1], ![j + 1] = h[i + 1]]

RECURSIVE _bubbleUp(_, _)
_bubbleUp(h, index) ==
    IF index = 0 THEN h
    ELSE LET parentIndex == (index - 1) \div 2 IN
         IF At(h, index).priority < At(h, parentIndex).priority
         THEN _bubbleUp(Swap(h, index, parentIndex), parentIndex)
         ELSE h

RECURSIVE _bubbleDown(_, _)
_bubbleDown(h, index) ==
    LET leftChild == 2 * index + 1
        rightChild == 2 * index + 2
        s1 == IF leftChild < Len(h) /\ At(h, leftChild).priority < At(h, index).priority
              THEN leftChild ELSE index
        smallest == IF rightChild < Len(h) /\ At(h, rightChild).priority < At(h, s1).priority
                    THEN rightChild ELSE s1
    IN IF smallest # index
       THEN _bubbleDown(Swap(h, index, smallest), smallest)
       ELSE h

push(h, item, priority) ==
    _bubbleUp(Append(h, [item |-> item, priority |-> priority]), Len(h))

\* pop returns the item only (the node's priority is dropped) and the new heap
pop(h) ==
    IF Len(h) = 0 THEN [item |-> NoEntity, heap |-> h]
    ELSE IF Len(h) = 1 THEN [item |-> h[1].item, heap |-> <<>>]
    ELSE [item |-> h[1].item,
          heap |-> _bubbleDown([SubSeq(h, 1, Len(h) - 1) EXCEPT ![1] = h[Len(h)]], 0)]

\* priority of the node pop removes (not available to the caller of pop)
TopPriority(h) == IF Len(h) = 0 THEN 0 ELSE h[1].priority

(***************************************************************************)
(* Entity                                                                  *)
(***************************************************************************)
\* variant of getActionDelay without a delay
getActionDelay_NoWait(e) == 0

\* Math.max(100, 1000 / speed.value)
getActionDelay(e) ==
    LET d == 10000 \div SpeedTenths(e) IN IF d > 100 THEN d ELSE 100

(***************************************************************************)
(* Scheduler                                                               *)
(***************************************************************************)
\* variant of getNextEntity that returns whatever pop yields, active or not
getNextEntity_NoActiveCheck(h, act, skipped) ==
    IF Len(h) = 0
    THEN [ret |-> NoEntity, heap |-> h, discarded |-> skipped, prio |-> 0]
    ELSE [ret |-> pop(h).item, heap |-> pop(h).heap, discarded |-> skipped,
          prio |-> TopPriority(h)]

\* variant of getNextEntity that leaves the returned actor's node in the heap
getNextEntity_Peek(h, act, skipped) ==
    IF Len(h) = 0 \/ h[1].item = NoEntity \/ ~act[h[1].item]
    THEN getNextEntity_NoActiveCheck(h, act, skipped)
    ELSE [ret |-> h[1].item, heap |-> h, discarded |-> skipped,
          prio |-> TopPriority(h)]

\* getNextEntity: pop until an active entity is found or the heap is empty
RECURSIVE getNextEntity(_, _, _)
getNextEntity(h, act, skipped) ==
    IF Len(h) = 0
    THEN [ret |-> NoEntity, heap |-> h, discarded |-> skipped, prio |-> 0]
    ELSE LET p == pop(h) IN
         IF p.item = NoEntity \/ ~act[p.item]
         THEN getNextEntity(p.heap, act, Append(skipped, p.item))
         ELSE [ret |-> p.item, heap |-> p.heap, discarded |-> skipped,
               prio |-> TopPriority(h)]

\* the scheduler's own fields as one record
Sched == [heap |-> heap, currentTime |-> currentTime, nextAction |-> nextAction]

\* variant of schedule that does not test the actor
schedule_NoActiveCheck(s, act, e, delay) ==
    IF e = NoEntity THEN s
    ELSE LET actionDelay == IF delay # NullDelay THEN delay ELSE getActionDelay(e)
             nextActionTime == s.currentTime + actionDelay
         IN [s EXCEPT !.nextAction[e] = nextActionTime,
                      !.heap = push(@, e, nextActionTime)]

\* Scheduler.schedule(entity, delay): nothing for a null or inactive entity
schedule(s, act, e, delay) ==
    IF e = NoEntity \/ ~act[e] THEN s
    ELSE LET actionDelay == IF delay # NullDelay THEN delay ELSE getActionDelay(e)
             nextActionTime == s.currentTime + actionDelay
         IN [s EXCEPT !.nextAction[e] = nextActionTime,
                      !.heap = push(@, e, nextActionTime)]

\* the history keeps whether the call named an entity at all (resolved) and
\* whether that entity was active (ok)
Schedule(e, delay) ==
    /\ Len(heap) < MaxHeap
    /\ e # NoEntity =>
           currentTime + (IF delay # NullDelay THEN delay ELSE getActionDelay(e))
               <= MaxTime
    /\ LET s == schedule(Sched, active, e, delay)
           live == e # NoEntity /\ active[e]
       IN /\ heap' = s.heap
          /\ nextAction' = s.nextAction
          /\ call' = [NoCall EXCEPT !.op = "schedule", !.ok = live,
                                    !.resolved = e # NoEntity]
    /\ UNCHANGED <<currentTime, pushed, worldVars, combatVars>>

GetNextEntity ==
    LET r == getNextEntity(heap, active, <<>>) IN
    /\ heap' = r.heap
    /\ currentTime' = IF r.ret = NoEntity THEN currentTime ELSE nextAction[r.ret]
    /\ call' = [NoCall EXCEPT !.op = "getNextEntity", !.ret = r.ret,
                              !.discarded = r.discarded, !.prio = r.prio]
    /\ UNCHANGED <<nextAction, pushed, worldVars, combatVars>>

(***************************************************************************)
(* World                                                                   *)
(***************************************************************************)
\* World.removeEntity: deactivate, unregister, clear the player reference
RemoveEntity(e) ==
    /\ e \in entities
    /\ Commit(removeEntity(Cur, e))
    /\ call' = [NoCall EXCEPT !.op = "removeEntity"]
    /\ UNCHANGED <<schedVars, now, equipment, steps>>

(***************************************************************************)
(* CharacterProgress                                                       *)
(***************************************************************************)
\* outcomes of increaseStats (1 to 3 points spread over the four stats): one
\* draw for each number of points
StatIncreases ==
    {[strength |-> 1, dexterity |-> 0, intelligence |-> 0, constitution |-> 0],
     [strength |-> 0, dexterity |-> 1, intelligence |-> 0, constitution |-> 1],
     [strength |-> 2, dexterity |-> 0, intelligence |-> 1, constitution |-> 0]}

increaseStats(w, e, inc) ==
    [w EXCEPT !.stats[e] = [s \in DOMAIN @ |->
                               IF s \in StatNames THEN @[s] + inc[s] ELSE @[s]]]

\* performLevelUp: level up, raise stats, health.max += 4 and full heal
performLevelUp(w, e, inc) ==
    LET w1 == [w EXCEPT !.level.value = @ + 1]
        w2 == increaseStats(w1, e, inc)
    IN [w2 EXCEPT !.health[e] = [current |-> @.max + 40, max |-> @.max + 40]]

\* checkLevelUp raises at most one level per call
checkLevelUp(w, e, inc) ==
    IF w.level.experience >= getExperienceForLevel(w.level.value + 1)
    THEN performLevelUp(w, e, inc)
    ELSE w

addExperience(w, e, experience, inc) ==
    checkLevelUp([w EXCEPT !.level.experience = @ + experience], e, inc)

(***************************************************************************)
(* CombatSystem                                                            *)
(***************************************************************************)
isDead(w, e) == w.health[e].current <= 0

\* variant of canAttack without the check that the target is dead
canAttack_NoDeadCheck(w, attacker, target) ==
    /\ w.active[attacker] /\ w.active[target]
    /\ attacker # target

canAttack(w, attacker, target) ==
    /\ w.active[attacker] /\ w.active[target]
    /\ attacker # target
    /\ ~isDead(w, target)

\* CombatSystem.calculateDamage, in tenths
calculateDamage(w, attacker, target) ==
    Max(10, equipmentCalculateDamage(w, attacker).damage - calculateDefense(w, target))

\* calculateDodge, in tenths of a percent
calculateDodge(w, e) ==
    IF w.stats[e].agility = 0 THEN 0
    ELSE Min(500, Max(0, (w.stats[e].agility - 10) * 20)
                  + getSkillBonuses(w, e, FALSE).dodgeChance)

\* variant of rollToHit without the clamp to 5..95
rollToHit_NoClamp(w, attacker, target, roll) ==
    LET dexBonus == (w.stats[attacker].dexterity - 10) * 20
        finalHitChance == 500 + dexBonus - calculateDodge(w, target)
    IN roll < finalHitChance

\* rollToHit; roll is Math.random() * 100 in tenths of a percent
rollToHit(w, attacker, target, roll) ==
    LET dexBonus == (w.stats[attacker].dexterity - 10) * 20
        finalHitChance == Max(50, Min(950, 500 + dexBonus - calculateDodge(w, target)))
    IN roll < finalHitChance

\* checkBlock; roll is Math.random() * 100 in percent
checkBlock(w, target, roll) ==
    /\ w.equipment[target].shield
    /\ roll < 10 + getSkillBonuses(w, target, FALSE).blockChance

\* variant of onCooldown that never holds an attack back
onCooldown_Never(w, attacker) == FALSE

\* the attacker is still on cooldown: now - lastAttack.time < 6400 / swingSpeed
onCooldown(w, attacker) ==
    (now - w.lastAttack[attacker]) * equipmentCalculateDamage(w, attacker).swingSpeed
        < baseAttackSpeed * 10000

\* variant of halfDamage without Math.floor
halfDamage_NoFloor(damage) == damage \div 2

\* Math.floor(damage * 0.5) on a damage given in tenths
halfDamage(damage) == (damage \div 20) * 10

\* variant of applyDamage without the clamp at 0
applyDamage_NoClamp(w, e, damage) ==
    [w EXCEPT !.health[e].current = @ - damage]

applyDamage(w, e, damage) ==
    [w EXCEPT !.health[e].current = Max(0, @ - damage)]

createSwingAnimation(w) == [w EXCEPT !.swings = @ + 1]

\* Game.interruptResting
interruptResting(w) ==
    IF ~w.isResting THEN w
    ELSE [w EXCEPT !.isResting = FALSE, !.msgs = @ + 1]

\* the sword maps to 1h_slash; entities without a weapon gain nothing
gainWeaponSkillExperience(w, attacker) ==
    IF ~w.equipment[attacker].weapon THEN w
    ELSE gainSkillExperience(gainSkillExperience(w, attacker, "1h_slash", 2),
                             attacker, "offense", 1)

\* giveExperience(world.player, monster): level.value * 10, one xp message,
\* one more on level up
giveExperience(w, m, inc) ==
    LET w1 == addExperience(w, Player, MonsterLevel(m) * 10, inc)
    IN [w1 EXCEPT !.msgs = @ + (IF w1.level.value > w.level.value THEN 2 ELSE 1)]

\* createCorpse: a new corpse entity at the monster's position with its loot
\* table, registered under the id corpse_<monster>; credited is history, the
\* number of times gold was paid out from this corpse
createCorpse(w, m) ==
    [w EXCEPT !.corpses[m] = Append(@, [looted |-> FALSE, active |-> TRUE,
                                        pos |-> w.pos[m], loot |-> LootTable(m),
                                        credited |-> 0]),
              !.corpseReg[m] = Len(w.corpses[m]) + 1]

\* variant of handleDeath that leaves the dead entity in the world
handleDeath_NoRemove(w, e, inc) ==
    LET w0 == [w EXCEPT !.deathCount[e] = @ + 1]
        w1 == IF e \in Monsters /\ w0.worldPlayer # NoEntity
              THEN giveExperience(w0, e, inc) ELSE w0
    IN IF e \in Monsters THEN createCorpse(w1, e) ELSE w1

handleDeath(w, e, inc) ==
    LET w0 == [w EXCEPT !.deathCount[e] = @ + 1]
        w1 == IF e \in Monsters /\ w0.worldPlayer # NoEntity
              THEN giveExperience(w0, e, inc) ELSE w0
        w2 == IF e \in Monsters THEN createCorpse(w1, e) ELSE w1
    IN removeEntity(w2, e)

NoAttack(w) ==
    [w |-> w, ret |-> FALSE, resolved |-> FALSE, blocked |-> FALSE,
     damage |-> 0, applied |-> 0]

\* attackTarget; rolls are the Math.random() draws of rollToHit, checkBlock and
\* the dodge check, inc the stat draw of a level up
attackTarget(w, attacker, target, rolls, inc) ==
    IF ~canAttack(w, attacker, target) THEN NoAttack(w)
    ELSE IF onCooldown(w, attacker) THEN NoAttack(w)
    ELSE
      LET w1 == [w EXCEPT !.lastAttack[attacker] = now]
          damage == calculateDamage(w1, attacker, target)
          hit == rollToHit(w1, attacker, target, rolls.hit)
      IN IF hit
         THEN LET blocked == checkBlock(w1, target, rolls.block)
                  finalDamage == IF blocked THEN halfDamage(damage) ELSE damage
                  w2 == IF blocked
                        THEN gainSkillExperience([w1 EXCEPT !.msgs = @ + 1],
                                                 target, "block", 5)
                        ELSE w1
                  w3 == applyDamage(w2, target, finalDamage)
                  w4 == createSwingAnimation([w3 EXCEPT !.msgs = @ + 1])
                  w5 == IF target = Player THEN interruptResting(w4) ELSE w4
                  w6 == IF isDead(w5, target) THEN handleDeath(w5, target, inc) ELSE w5
                  w7 == gainWeaponSkillExperience(w6, attacker)
              IN [w |-> w7, ret |-> TRUE, resolved |-> TRUE, blocked |-> blocked,
                  damage |-> finalDamage,
                  applied |-> w.health[target].current - w3.health[target].current]
         ELSE LET w2 == createSwingAnimation([w1 EXCEPT !.msgs = @ + 1])
                  w3 == IF rolls.dodge < calculateDodge(w2, target)
                        THEN gainSkillExperience([w2 EXCEPT !.msgs = @ + 1],
                                                 target, "dodge", 3)
                        ELSE w2
              IN [w |-> w3, ret |-> FALSE, resolved |-> TRUE, blocked |-> FALSE,
                  damage |-> 0, applied |-> 0]

\* variant of lootCorpse without the check of the looted flag
lootCorpse_NoLootedCheck(w, m, i, g) ==
    LET w1 == [w EXCEPT !.gold = @ + g, !.msgs = @ + 1,
                        !.corpses[m][i].looted = TRUE,
                        !.corpses[m][i].credited = @ + 1]
    IN [w |-> removeCorpseEntity(w1, m), ret |-> TRUE]

\* CombatSystem.lootCorpse on the i-th corpse object of monster m; g is the
\* rolled gold amount
lootCorpse(w, m, i, g) ==
    LET corpse == w.corpses[m][i] IN
    IF corpse.looted THEN [w |-> w, ret |-> FALSE]
    ELSE LET looted == g > 0
             w1 == IF looted
                   THEN [w EXCEPT !.gold = @ + g, !.msgs = @ + 1,
                                  !.corpses[m][i].credited = @ + 1]
                   ELSE w
             w2 == [w1 EXCEPT !.corpses[m][i].looted = TRUE]
             w3 == IF looted THEN removeCorpseEntity(w2, m) ELSE w2
         IN [w |-> w3, ret |-> looted]

(***************************************************************************)
(* EffectSystem                                                            *)
(***************************************************************************)
\* the effects of the database that change health each tick, in tenths
EffectNames == {"burn", "poison", "regeneration"}
getEffect(name) ==
    IF name = "burn" THEN [name |-> "Burn", type |-> "damage", amount |-> 20]
    ELSE IF name = "poison" THEN [name |-> "Poison", type |-> "damage", amount |-> 10]
    ELSE IF name = "stun" THEN [name |-> "Stun", type |-> "debuff", amount |-> 0]
    ELSE IF name = "slow" THEN [name |-> "Slow", type |-> "debuff", amount |-> 5]
    ELSE [name |-> "Regeneration", type |-> "heal", amount |-> 30]

\* the record applyEffect pushes: the database entry with the duration
NewEffect(name, duration) ==
    [name |-> getEffect(name).name, type |-> getEffect(name).type,
     amount |-> getEffect(name).amount, remaining |-> duration]

\* applyDamageEffect / applyHealEffect; a debuff goes to applyDebuffEffect,
\* whose switch on effect.name has the cases 'slow', 'stun' and 'poison' and
\* so matches no name of the database ("Slow", "Stun"): nothing changes, and
\* speed.value, which only applySlowEffect writes, stays the template's
applyEffectTick(w, e, effect) ==
    IF effect.type = "damage"
    THEN [w EXCEPT !.health[e].current = Max(0, @ - effect.amount)]
    ELSE IF effect.type = "heal"
    THEN [w EXCEPT !.health[e].current = Min(w.health[e].max, @ + effect.amount)]
    ELSE w

\* the loop of EffectSystem.processEntity over the entity's effects
RECURSIVE tickEffects(_, _, _)
tickEffects(w, e, i) ==
    IF i > Len(w.effects[e]) THEN w
    ELSE LET w1 == [w EXCEPT !.effects[e][i].remaining = @ - 1]
         IN tickEffects(applyEffectTick(w1, e, w1.effects[e][i]), e, i + 1)

IsRunning(effect) == effect.remaining > 0

\* variant of processEntity that drops an effect one tick late
effectProcessEntity_DropLate(w, e) ==
    LET w1 == tickEffects(w, e, 1)
        running(effect) == effect.remaining >= 0
    IN [w1 EXCEPT !.effects[e] = SelectSeq(@, running)]

\* EffectSystem.processEntity: tick every effect, drop the expired ones
effectProcessEntity(w, e) ==
    LET w1 == tickEffects(w, e, 1)
    IN [w1 EXCEPT !.effects[e] = SelectSeq(@, IsRunning)]

\* processAllEffects: every active entity of the world, in registry order
ActorOrder == <<Player, "m1", "m2">>
RECURSIVE processAllEffects(_, _)
processAllEffects(w, i) ==
    IF i > Len(ActorOrder) THEN w
    ELSE LET e == ActorOrder[i]
         IN processAllEffects(IF e \in w.entities /\ w.active[e]
                              THEN effectProcessEntity(w, e) ELSE w, i + 1)

(***************************************************************************)
(* ProjectileSystem                                                        *)
(***************************************************************************)
\* dropLoot: one gold item entity (every loot table rolls at least 1 gold)
dropLoot(w, m) == [w EXCEPT !.droppedGold = @ + 1]

\* handleTargetDeath: its giveExperience only logs; loot drops, target removed
handleTargetDeath(w, target) ==
    removeEntity(IF target \in Monsters THEN dropLoot(w, target) ELSE w, target)

\* applyProjectileDamage; damage is the projectile's damage field in tenths,
\* 0 for a projectile created without one (damage || 1)
applyProjectileDamage(w, target, damage) ==
    LET d == IF damage = 0 THEN 10 ELSE damage
        w1 == [w EXCEPT !.health[target].current = Max(0, @ - d)]
    IN IF w1.health[target].current <= 0 THEN handleTargetDeath(w1, target) ELSE w1

(***************************************************************************)
(* Game: resting and the transition to a new area                          *)
(***************************************************************************)
stopResting(w) == [w EXCEPT !.isResting = FALSE, !.msgs = @ + 1]

\* Math.floor(health.max * 0.02), in tenths
restHealAmount(w) == (((w.health[Player].max \div 10) * 2) \div 100) * 10

\* startRestHealing: heal 2% of max, re-arm the timer unless at full health
startRestHealing(w) ==
    IF ~w.isResting THEN w
    ELSE IF w.health[Player].current >= w.health[Player].max THEN stopResting(w)
    ELSE LET w1 == [w EXCEPT !.health[Player].current =
                                  Min(w.health[Player].max, @ + restHealAmount(w)),
                             !.msgs = @ + 1]
         IN IF w1.health[Player].current < w1.health[Player].max
            THEN [w1 EXCEPT !.restTimers = @ + 1]
            ELSE stopResting(w1)

restPlayer(w) ==
    IF w.health[Player].current >= w.health[Player].max
    THEN [w EXCEPT !.msgs = @ + 1]
    ELSE IF w.isResting THEN stopResting(w)
    ELSE startRestHealing([w EXCEPT !.isResting = TRUE, !.msgs = @ + 1])

\* where the player and freshly spawned monsters stand in a new level: the
\* player in the first room, monsters in other rooms
StartPos(e) == IF e = Player THEN <<1, 1>> ELSE IF e = "m1" THEN <<5, 1>> ELSE <<6, 1>>

\* enterNewArea: generateLevel empties the registry (nothing is deactivated),
\* lays out a map without a further exit and spawns fresh monsters in the
\* slots of spawn; the player is put back, moved to the start room and healed
\* by 20
enterNewArea(w, spawn) ==
    [w EXCEPT
       !.entities = {Player} \cup spawn,
       !.worldPlayer = Player,
       !.corpseReg = [m \in Monsters |-> 0],
       !.corpses = [m \in Monsters |-> IF m \in spawn THEN <<>> ELSE @[m]],
       !.swings = 0,
       !.droppedGold = 0,
       !.exits = {},
       !.pos = [e \in Actors |-> IF e = Player \/ e \in spawn THEN StartPos(e) ELSE @[e]],
       !.active = [e \in Actors |-> IF e \in spawn THEN TRUE ELSE @[e]],
       !.lastAttack = [e \in Actors |-> IF e \in spawn THEN 0 ELSE @[e]],
       !.effects = [e \in Actors |-> IF e \in spawn THEN <<>> ELSE @[e]],
       !.deathCount = [e \in Actors |-> IF e \in spawn THEN 0 ELSE @[e]],
       !.notice = [m \in Monsters |-> IF m \in spawn THEN NewNotice ELSE @[m]],
       !.isVisible = [m \in Monsters |-> IF m \in spawn THEN FALSE ELSE @[m]],
       !.qualified = [m \in Monsters |-> IF m \in spawn THEN 0 ELSE @[m]],
       !.health = [e \in Actors |->
                     IF e \in spawn
                     THEN [current |-> TemplateMaxHealth(e), max |-> TemplateMaxHealth(e)]
                     ELSE IF e = Player
                     THEN [w.health[e] EXCEPT
                             !.current = Min(w.health[e].max, @ + 200)]
                     ELSE @[e]],
       !.msgs = @ + 3]

(***************************************************************************)
(* MovementSystem and the map (on the state record)                        *)
(***************************************************************************)
\* the map of the notice model: a corridor two cells high with one wall cell
Width == 10
Height == 2
Walls == {<<4, 0>>}

\* World.isPassable
isPassable(x, y) ==
    /\ x >= 0 /\ x < Width /\ y >= 0 /\ y < Height
    /\ <<x, y>> \notin Walls

\* MovementSystem.directions
directions ==
    [north |-> <<0, -1>>, south |-> <<0, 1>>, east |-> <<1, 0>>, west |-> <<-1, 0>>,
     northeast |-> <<1, -1>>, northwest |-> <<-1, -1>>,
     southeast |-> <<1, 1>>, southwest |-> <<-1, 1>>]

\* Entity.distanceTo(other) <= r, on the squares
withinDistance(w, a, b, r) ==
    LET dx == w.pos[a][1] - w.pos[b][1]
        dy == w.pos[a][2] - w.pos[b][2]
    IN dx * dx + dy * dy <= r * r

\* hasLineOfSight: the cells Math.floor(from + step * i + 0.5) for 0 < i < steps
hasLineOfSight(w, from, to) ==
    LET fx == w.pos[from][1]
        fy == w.pos[from][2]
        dx == w.pos[to][1] - fx
        dy == w.pos[to][2] - fy
        n == Max(Abs(dx), Abs(dy))
    IN \A i \in 1..(n - 1) :
          isPassable((2 * fx * n + 2 * dx * i + n) \div (2 * n),
                     (2 * fy * n + 2 * dy * i + n) \div (2 * n))

\* variant of canMoveTo that does not look for an occupant
canMoveTo_NoOccupancy(w, e, x, y) ==
    /\ x >= 0 /\ x < Width /\ y >= 0 /\ y < Height
    /\ isPassable(x, y)

\* canMoveTo: in bounds, passable, no other active entity of the world there
\* (corpses do not block)
canMoveTo(w, e, x, y) ==
    /\ x >= 0 /\ x < Width /\ y >= 0 /\ y < Height
    /\ isPassable(x, y)
    /\ ~\E o \in w.entities : o # e /\ w.active[o] /\ w.pos[o] = <<x, y>>

\* the blocking entity canMoveTo finds at a cell, if any
occupant(w, e, x, y) ==
    IF \E o \in w.entities : o # e /\ w.active[o] /\ w.pos[o] = <<x, y>>
    THEN CHOOSE o \in w.entities : o # e /\ w.active[o] /\ w.pos[o] = <<x, y>>
    ELSE NoEntity

\* setPosition when canMoveTo allows it
stepTo(w, e, x, y) ==
    IF canMoveTo(w, e, x, y) THEN [w EXCEPT !.pos[e] = <<x, y>>] ELSE w

Sign(d) == IF d > 0 THEN 1 ELSE -1

moveTowardsTarget(w, e, target) ==
    LET x == w.pos[e][1]
        y == w.pos[e][2]
        dx == w.pos[target][1] - x
        dy == w.pos[target][2] - y
    IN IF 4 * (dx * dx + dy * dy) <= 9
       THEN IF dx # 0 /\ dy # 0 /\ canMoveTo(w, e, x + Sign(dx), y + Sign(dy))
            THEN stepTo(w, e, x + Sign(dx), y + Sign(dy))
            ELSE stepTo(w, e, x + (IF dx = 0 THEN 0 ELSE Sign(dx)),
                              y + (IF dy = 0 THEN 0 ELSE Sign(dy)))
       ELSE IF Abs(dx) > Abs(dy) THEN stepTo(w, e, x + Sign(dx), y)
       ELSE IF Abs(dy) > Abs(dx) THEN stepTo(w, e, x, y + Sign(dy))
       ELSE IF canMoveTo(w, e, x + Sign(dx), y + Sign(dy))
            THEN stepTo(w, e, x + Sign(dx), y + Sign(dy))
       ELSE IF canMoveTo(w, e, x + Sign(dx), y)
            THEN stepTo(w, e, x + Sign(dx), y)
       ELSE stepTo(w, e, x, y + Sign(dy))

\* randomMovement with the direction drawn
randomMovement(w, e, dir) ==
    stepTo(w, e, w.pos[e][1] + directions[dir][1], w.pos[e][2] + directions[dir][2])

\* the condition processMonsterMovement tests before it touches the notice state
inAlert(w, m) ==
    withinDistance(w, m, Player, alertRange(m)) /\ hasLineOfSight(w, m, Player)

\* the monster's turn is evaluated at all: visible, and the world has a player
evaluated(w, m) == w.isVisible[m] /\ w.worldPlayer # NoEntity

\* history: consecutive qualifying turns since the monster was last unaware
qualifiedAfter(w, m) ==
    IF ~(evaluated(w, m) /\ inAlert(w, m)) THEN 0
    ELSE IF ~w.notice[m].hasNoticed /\ w.notice[m].noticeTimer = 0 THEN 1
    ELSE IF w.qualified[m] > 0 THEN Min(noticeDelay, w.qualified[m] + 1)
    ELSE 0

\* variant of noticeUpdate that turns hostile only after the delay is exceeded
noticeUpdate_Late(w, m) ==
    IF inAlert(w, m)
    THEN IF w.notice[m].hasNoticed THEN w
         ELSE LET t == w.notice[m].noticeTimer + 1
              IN [w EXCEPT !.notice[m] = [hasNoticed |-> t > noticeDelay,
                                          noticeTimer |-> t],
                           !.msgs = IF t > noticeDelay \/ t = 1 THEN @ + 1 ELSE @]
    ELSE IF w.notice[m].hasNoticed
         THEN [w EXCEPT !.notice[m] = NewNotice, !.msgs = @ + 1]
         ELSE w

\* the notice part of processMonsterMovement (lines 391 to 409)
noticeUpdate(w, m) ==
    IF inAlert(w, m)
    THEN IF w.notice[m].hasNoticed THEN w
         ELSE LET t == w.notice[m].noticeTimer + 1
              IN [w EXCEPT !.notice[m] = [hasNoticed |-> t >= noticeDelay,
                                          noticeTimer |-> t],
                           !.msgs = IF t >= noticeDelay \/ t = 1 THEN @ + 1 ELSE @]
    ELSE IF w.notice[m].hasNoticed
         THEN [w EXCEPT !.notice[m] = NewNotice, !.msgs = @ + 1]
         ELSE w

\* processMonsterMovement; move is "none" or the direction of the 5% random
\* step of a monster that has not noticed the player
processMonsterMovement(w, m, move) ==
    LET w0 == [w EXCEPT !.qualified[m] = qualifiedAfter(w, m)]
    IN IF ~evaluated(w, m) THEN w0
       ELSE LET w1 == noticeUpdate(w0, m)
            IN IF w1.notice[m].hasNoticed
               THEN IF w1.notice[m].noticeTimer < noticeDelay THEN w1
                    ELSE moveTowardsTarget(w1, m, Player)
               ELSE IF move = "none" THEN w1
                    ELSE randomMovement(w1, m, move)

\* Game.updateMonsterVisibility: field of view radius 8; a monster that
\* leaves it loses its notice state
playerFOVRadius == 8
updateMonsterVisibility(w) ==
    IF w.worldPlayer = NoEntity THEN w
    ELSE LET seen(m) == withinDistance(w, m, Player, playerFOVRadius)
             live(m) == m \in w.entities /\ w.active[m]
             lost(m) == live(m) /\ w.isVisible[m] /\ ~seen(m)
         IN [w EXCEPT
               !.isVisible = [m \in Monsters |-> IF live(m) THEN seen(m) ELSE @[m]],
               !.notice = [m \in Monsters |-> IF lost(m) THEN NewNotice ELSE @[m]],
               !.qualified = [m \in Monsters |-> IF lost(m) THEN 0 ELSE @[m]]]

\* moveInDirection for the player, then what Game.movePlayer does on success:
\* the rest is interrupted and a hallway exit under the player leads to a new
\* area with the monsters of spawn (the combat queue is off)
movePlayer(w, dir, spawn) ==
    LET x == w.pos[Player][1] + directions[dir][1]
        y == w.pos[Player][2] + directions[dir][2]
    IN IF canMoveTo(w, Player, x, y)
       THEN LET w1 == [interruptResting([w EXCEPT !.pos[Player] = <<x, y>>])
                         EXCEPT !.msgs = @ + 1]
            IN IF <<x, y>> \in w1.exits THEN enterNewArea(w1, spawn) ELSE w1
       ELSE [w EXCEPT !.msgs = @ + 1]

(***************************************************************************)
(* Operations of the combat model                                          *)
(***************************************************************************)
\* Math.random() * 100 draws, one per outcome class of the roll
HitRolls == {0, 990}
BlockRolls == {0, 50}
DodgeRolls == {0, 990}
Rolls == [hit : HitRolls, block : BlockRolls, dodge : DodgeRolls]

\* wall-clock time passing between two calls
Ticks == {3200}

Tick(d) ==
    /\ now + d <= StartNow + MaxElapsed
    /\ now' = now + d
    /\ call' = [NoCall EXCEPT !.op = "tick"]
    /\ UNCHANGED <<schedVars, worldVars, pos, lastAttack, health, stats, equipment,
                   skills, level, gold, corpses, corpseReg, swings, isResting,
                   effects, droppedGold, restTimers, noticeVars, gameOver, exits, steps, deathCount, projectile>>

\* Game hands attackTarget actors next to each other (distance <= 1.5): the
\* player and an adjacent monster in either role, or an actor and itself
Adjacent(a, b) ==
    Abs(pos[a][1] - pos[b][1]) <= 1 /\ Abs(pos[a][2] - pos[b][2]) <= 1
AttackPairs ==
    {p \in Actors \X Actors : (p[1] = Player \/ p[2] = Player) /\ Adjacent(p[1], p[2])}

\* a call of attackTarget and what it reports
Attack(attacker, target, rolls, inc) ==
    LET r == attackTarget(Cur, attacker, target, rolls, inc) IN
    /\ Commit(r.w)
    /\ call' = [NoCall EXCEPT !.op = "attackTarget", !.actor = attacker,
                              !.target = target, !.ok = r.ret,
                              !.resolved = r.resolved, !.blocked = r.blocked,
                              !.damage = r.damage,
                              !.hpBefore = health[target].current,
                              !.applied = r.applied,
                              !.msgs = r.w.msgs]
    /\ UNCHANGED <<schedVars, now, equipment>>

AttackTarget(attacker, target, rolls, inc) ==
    /\ Attack(attacker, target, rolls, inc)
    /\ UNCHANGED steps

\* CombatSystem.handleDeath called on an actor whose death was already handled
HandleDeath(e, inc) ==
    /\ deathCount[e] >= 1
    /\ e \in Monsters => Len(corpses[e]) < MaxCorpses
    /\ e = Player => deathCount[e] < MaxCorpses
    /\ LET w == handleDeath(Cur, e, inc) IN
       /\ Commit(w)
       /\ call' = [NoCall EXCEPT !.op = "handleDeath", !.actor = e, !.msgs = w.msgs]
    /\ UNCHANGED <<schedVars, now, equipment, steps>>

\* CombatSystem.lootCorpse(corpse, player, world) on a corpse object
LootCorpse(m, i, g) ==
    /\ i \in DOMAIN corpses[m]
    /\ g >= corpses[m][i].loot.min /\ g <= corpses[m][i].loot.max
    /\ LET r == lootCorpse(Cur, m, i, g) IN
       /\ Commit(r.w)
       /\ call' = [NoCall EXCEPT !.op = "lootCorpse", !.actor = m, !.obj = i,
                                 !.ok = r.ret, !.amount = g, !.msgs = r.w.msgs]
    /\ UNCHANGED <<schedVars, now, equipment, steps>>

\* EffectSystem.processAllEffects(world)
ProcessAllEffects ==
    /\ \E e \in Actors : effects[e] # <<>>
    /\ Commit(processAllEffects(Cur, 1))
    /\ call' = [NoCall EXCEPT !.op = "processAllEffects"]
    /\ UNCHANGED <<schedVars, now, equipment, steps>>

(***************************************************************************)
(* ProjectileSystem: the flight of a projectile entity                     *)
(***************************************************************************)
\* ProjectileSystem.createProjectile: the entity starts on the caster's cell
\* and is added to the world; data is the projectileData it is created from
createProjectile(w, caster, data, targetX, targetY) ==
    [w EXCEPT !.projectile =
        [x |-> w.pos[caster][1], y |-> w.pos[caster][2],
         targetX |-> targetX, targetY |-> targetY, ownerId |-> caster,
         damage |-> data.damage, range |-> data.range, distanceTraveled |-> 0,
         active |-> TRUE, registered |-> TRUE, hits |-> 0]]

\* ProjectileSystem.isValidPosition
isValidPosition(x, y) ==
    /\ ~(x < 0 \/ x >= Width \/ y < 0 \/ y >= Height)
    /\ isPassable(x, y)

\* World.removeEntity for the projectile's id
removeProjectile(w) ==
    IF w.projectile.registered
    THEN [w EXCEPT !.projectile.active = FALSE, !.projectile.registered = FALSE]
    ELSE w

\* what World.getEntitiesAt returns for the projectile's cell, reduced to the
\* ids checkCollisions can stop at: the actors come first (they were added to
\* the world before the projectile), the projectile itself comes last
entitiesAtProjectile(w) ==
    LET p == w.projectile
        here == {o \in w.entities : w.active[o] /\ w.pos[o] = <<p.x, p.y>>}
    IN [actors |-> here, self |-> p.registered /\ p.active]

\* handleProjectileHit: damage to the target if there is one (an entity
\* without health, such as the projectile, takes none), no spell effects
\* (no spells module is injected), then the projectile leaves the world
handleProjectileHit(w, target) ==
    removeProjectile(
        IF target \in Actors
        THEN [applyProjectileDamage(w, target, w.projectile.damage)
                 EXCEPT !.projectile.hits = @ + 1]
        ELSE w)

\* the unit step moveProjectile takes along one axis
projectileStep(d) == IF d = 0 THEN 0 ELSE IF d > 0 THEN 1 ELSE -1

\* moveProjectile
moveProjectile(w) ==
    LET p == w.projectile
        dx == p.targetX - p.x
        dy == p.targetY - p.y
        newX == p.x + projectileStep(dx)
        newY == p.y + projectileStep(dy)
    IN IF dx = 0 /\ dy = 0 THEN handleProjectileHit(w, NoEntity)
       ELSE IF isValidPosition(newX, newY)
       THEN [w EXCEPT !.projectile.x = newX, !.projectile.y = newY,
                      !.projectile.distanceTraveled = @ + 1]
       ELSE handleProjectileHit(w, NoEntity)

\* checkCollisions: the first entity on the projectile's cell whose id is not
\* the owner's stops it; the projectile is one of the entities on its cell
checkCollisions(w) ==
    LET at == entitiesAtProjectile(w)
        hit == {o \in at.actors : o # w.projectile.ownerId}
    IN IF hit # {} THEN handleProjectileHit(w, CHOOSE o \in hit : TRUE)
       ELSE IF at.self THEN handleProjectileHit(w, "projectile")
       ELSE w

\* checkProjectileLifetime
checkProjectileLifetime(w) ==
    IF w.projectile.distanceTraveled >= w.projectile.range
    THEN handleProjectileHit(w, NoEntity)
    ELSE w

\* ProjectileSystem.processEntity for the projectile entity
projectileProcessEntity(w) ==
    checkProjectileLifetime(checkCollisions(moveProjectile(w)))

(***************************************************************************)
(* Initial states                                                          *)
(***************************************************************************)
\* the state Game.init leaves the characters in, for a given gear, progress
\* and health of the characters
CombatStart(armor, shield, equipped, slashXp, xp, hp, burning) ==
    /\ pos = [e \in Actors |-> IF e = Player THEN <<1, 1>>
                               ELSE IF e = "m1" THEN <<2, 1>> ELSE <<5, 5>>]
    /\ now = StartNow
    /\ lastAttack = [e \in Actors |-> 0]
    /\ health = [e \in Actors |-> [current |-> hp[e], max |-> TemplateMaxHealth(e)]]
    /\ stats = [e \in Actors |-> TemplateStats(e)]
    /\ equipment = [e \in Actors |-> IF e = Player THEN PlayerEquipment(armor, shield)
                                     ELSE MonsterEquipment(e, equipped)]
    /\ skills = [s \in SkillNames |->
                    IF s = "1h_slash" THEN [NewSkill EXCEPT !.experience = slashXp]
                    ELSE NewSkill]
    /\ level = [value |-> 1, experience |-> xp]
    /\ gold = 0
    /\ corpses = [m \in Monsters |-> <<>>]
    /\ corpseReg = [m \in Monsters |-> 0]
    /\ swings = 0
    /\ isResting = FALSE
    /\ droppedGold = 0
    /\ restTimers = 0
    /\ notice = [m \in Monsters |-> NewNotice]
    /\ isVisible = [m \in Monsters |-> FALSE]
    /\ qualified = [m \in Monsters |-> 0]
    /\ gameOver = FALSE
    /\ exits = {}
    /\ steps = 0
    /\ effects = [e \in Actors |-> IF e \in burning THEN <<NewEffect("burn", 1)>>
                                   ELSE <<>>]
    /\ deathCount = [e \in Actors |-> 0]
    /\ projectile = NoProjectile

FullHealth == [e \in Actors |-> TemplateMaxHealth(e)]

(***************************************************************************)
(* Scheduler specification: any interleaving of schedule, pop, deactivate  *)
(***************************************************************************)
SchedInit ==
    /\ heap = <<>>
    /\ pushed = <<>>
    /\ currentTime = 0
    /\ nextAction = [e \in Actors |-> 0]
    /\ active = [e \in Actors |-> TRUE]
    /\ entities = Actors
    /\ worldPlayer = Player
    /\ CombatStart(1, FALSE, FALSE, 0, 0, FullHealth, {})
    /\ call = NoCall

SchedNext ==
    \/ \E e \in Actors, d \in Delays \cup {NullDelay} : Schedule(e, d)
    \/ Schedule(NoEntity, NullDelay)
    \/ GetNextEntity
    \/ \E e \in Actors : RemoveEntity(e)

SchedSpec == SchedInit /\ [][SchedNext]_vars

(***************************************************************************)
(* Queue specification: PriorityQueue.push and PriorityQueue.pop in any    *)
(* order, with tied and untied priorities                                  *)
(***************************************************************************)
\* PriorityQueue.push(item, priority); the history appends the node
QueuePush(item, priority) ==
    /\ Len(heap) < MaxHeap
    /\ heap' = push(heap, item, priority)
    /\ pushed' = Append(pushed, [item |-> item, priority |-> priority])
    /\ call' = [NoCall EXCEPT !.op = "push", !.actor = item, !.prio = priority]
    /\ UNCHANGED <<currentTime, nextAction, worldVars, combatVars>>

\* PriorityQueue.pop(); the history drops the oldest node equal to the one
\* that left the heap
QueuePop ==
    /\ heap' = pop(heap).heap
    /\ pushed' =
          IF Len(heap) = 0 THEN pushed
          ELSE LET i == CHOOSE k \in 1..Len(pushed) :
                           /\ pushed[k] = heap[1]
                           /\ \A j \in 1..(k - 1) : pushed[j] # heap[1]
               IN SubSeq(pushed, 1, i - 1) \o SubSeq(pushed, i + 1, Len(pushed))
    /\ call' = [NoCall EXCEPT !.op = "pop", !.ret = pop(heap).item,
                              !.prio = TopPriority(heap), !.ok = Len(heap) > 0]
    /\ UNCHANGED <<currentTime, nextAction, worldVars, combatVars>>

TieNext ==
    \/ \E item \in Actors, priority \in Delays : QueuePush(item, priority)
    \/ QueuePop

TieSpec == SchedInit /\ [][TieNext]_vars

(***************************************************************************)
(* Combat specification: attacks in both directions under passing time,    *)
(* repeated death handling and looting of the corpses                      *)
(***************************************************************************)
\* situations the modelled play starts from: the player's gear (leather
\* armour, or chainmail with a shield), the player's experience, the health of
\* the player and of the goblin, and whether the goblin is burning
StartScenarios ==
    {[armor |-> 1, shield |-> FALSE, xp |-> 0, player |-> 500, m1 |-> 100, burning |-> {}],
     [armor |-> 6, shield |-> TRUE, xp |-> 0, player |-> 20, m1 |-> 100, burning |-> {}],
     [armor |-> 1, shield |-> FALSE, xp |-> 0, player |-> 20, m1 |-> 20, burning |-> {}],
     [armor |-> 6, shield |-> TRUE, xp |-> 90, player |-> 500, m1 |-> 20, burning |-> {}],
     [armor |-> 1, shield |-> FALSE, xp |-> 0, player |-> 500, m1 |-> 20, burning |-> {"m1"}]}

CombatInit ==
    /\ heap = <<>>
    /\ pushed = <<>>
    /\ currentTime = 0
    /\ nextAction = [e \in Actors |-> 0]
    /\ active = [e \in Actors |-> TRUE]
    /\ entities = Actors
    /\ worldPlayer = Player
    /\ \E sc \in StartScenarios :
          CombatStart(sc.armor, sc.shield, TRUE, 18, sc.xp,
                      [FullHealth EXCEPT ![Player] = sc.player, !["m1"] = sc.m1],
                      sc.burning)
    /\ call = NoCall

\* the Math.random() draws a call consumes: none unless the attack gets past
\* canAttack and the cooldown, no stat draw unless the kill levels the player up
RollsFor(attacker, target) ==
    IF canAttack(Cur, attacker, target) /\ ~onCooldown(Cur, attacker)
    THEN Rolls ELSE {[hit |-> 0, block |-> 0, dodge |-> 0]}

DrawsFor(target) ==
    IF /\ target \in Monsters
       /\ level.experience + MonsterLevel(target) * 10
             >= getExperienceForLevel(level.value + 1)
    THEN StatIncreases
    ELSE {[s \in StatNames |-> 0]}

\* no gold is rolled for a corpse already looted
GoldRolls(corpse) ==
    IF corpse.looted THEN {corpse.loot.min} ELSE {corpse.loot.min, corpse.loot.max}

CombatNext ==
    \/ \E d \in Ticks : Tick(d)
    \/ \E p \in AttackPairs :
          \E rolls \in RollsFor(p[1], p[2]), inc \in DrawsFor(p[2]) :
             AttackTarget(p[1], p[2], rolls, inc)
    \/ \E e \in Actors : \E inc \in DrawsFor(e) : HandleDeath(e, inc)
    \/ ProcessAllEffects
    \/ \E m \in Monsters : \E i \in DOMAIN corpses[m] :
          \E g \in GoldRolls(corpses[m][i]) : LootCorpse(m, i, g)

CombatSpec == CombatInit /\ [][CombatNext]_vars

(***************************************************************************)
(* Health specification: every operation that changes health.current       *)
(***************************************************************************)
\* projectile damage fields: none, arrow 5
ProjectileDamages == {0, 50}
\* durations applyEffect is called with
Durations == {2}
\* the actors spells and projectiles are aimed at
Targets == {Player, "m1"}

\* attackTarget under the step budget
HealthAttack(attacker, target, rolls, inc) ==
    /\ steps < MaxSteps
    /\ Attack(attacker, target, rolls, inc)
    /\ steps' = steps + 1

\* EffectSystem.applyEffect (with the spell database injected)
ApplyEffect(e, name, duration) ==
    /\ steps < MaxSteps
    /\ Len(effects[e]) < MaxEffects
    /\ effects' = [effects EXCEPT ![e] = Append(@, NewEffect(name, duration))]
    /\ steps' = steps + 1
    /\ call' = [NoCall EXCEPT !.op = "applyEffect", !.actor = e, !.skill = name,
                              !.amount = duration]
    /\ UNCHANGED <<schedVars, worldVars, pos, now, lastAttack, health, stats,
                   equipment, skills, level, gold, corpses, corpseReg, swings,
                   isResting, droppedGold, restTimers, noticeVars, gameOver, exits, deathCount, projectile>>

\* processAllEffects under the step budget
EffectTick ==
    /\ steps < MaxSteps
    /\ \E e \in Actors : effects[e] # <<>>
    /\ Commit(processAllEffects(Cur, 1))
    /\ steps' = steps + 1
    /\ call' = [NoCall EXCEPT !.op = "processAllEffects"]
    /\ UNCHANGED <<schedVars, now, equipment>>

\* a projectile reaches an active entity of the world
ProjectileHit(target, damage) ==
    /\ steps < MaxSteps
    /\ target \in entities /\ active[target]
    /\ Commit(applyProjectileDamage(Cur, target, damage))
    /\ steps' = steps + 1
    /\ call' = [NoCall EXCEPT !.op = "projectileHit", !.target = target,
                              !.hpBefore = health[target].current]
    /\ UNCHANGED <<schedVars, now, equipment>>

\* Game.restPlayer (the rest key)
RestPlayer ==
    /\ steps < MaxSteps
    /\ LET w == restPlayer(Cur) IN
       /\ Commit(w)
       /\ call' = [NoCall EXCEPT !.op = "restPlayer", !.msgs = w.msgs,
                                 !.hpBefore = health[Player].current]
    /\ steps' = steps + 1
    /\ UNCHANGED <<schedVars, now, equipment>>

\* a pending rest timer fires
RestTimer ==
    /\ steps < MaxSteps
    /\ restTimers > 0
    /\ LET w == startRestHealing([Cur EXCEPT !.restTimers = @ - 1]) IN
       /\ Commit(w)
       /\ call' = [NoCall EXCEPT !.op = "startRestHealing", !.msgs = w.msgs,
                                 !.hpBefore = health[Player].current]
    /\ steps' = steps + 1
    /\ UNCHANGED <<schedVars, now, equipment>>

\* Game.enterNewArea
EnterNewArea(spawn) ==
    /\ steps < MaxSteps
    /\ Commit(enterNewArea(Cur, spawn))
    /\ steps' = steps + 1
    /\ call' = [NoCall EXCEPT !.op = "enterNewArea", !.msgs = 3,
                              !.hpBefore = health[Player].current]
    /\ UNCHANGED <<schedVars, now, equipment>>

HealthScenarios ==
    {[armor |-> 1, shield |-> FALSE, xp |-> 90, player |-> 20, m1 |-> 20, burning |-> {}]}

HealthInit ==
    /\ heap = <<>>
    /\ pushed = <<>>
    /\ currentTime = 0
    /\ nextAction = [e \in Actors |-> 0]
    /\ active = [e \in Actors |-> TRUE]
    /\ entities = Actors
    /\ worldPlayer = Player
    /\ \E sc \in HealthScenarios :
          CombatStart(sc.armor, sc.shield, TRUE, 18, sc.xp,
                      [FullHealth EXCEPT ![Player] = sc.player, !["m1"] = sc.m1],
                      sc.burning)
    /\ call = NoCall

HealthNext ==
    \/ \E p \in AttackPairs :
          \E rolls \in RollsFor(p[1], p[2]), inc \in DrawsFor(p[2]) :
             HealthAttack(p[1], p[2], rolls, inc)
    \/ \E e \in Targets, name \in EffectNames, d \in Durations : ApplyEffect(e, name, d)
    \/ EffectTick
    \/ \E t \in Targets, d \in ProjectileDamages : ProjectileHit(t, d)
    \/ RestPlayer
    \/ RestTimer
    \/ \E spawn \in {{}, {"m1"}} : EnterNewArea(spawn)

HealthSpec == HealthInit /\ [][HealthNext]_vars

(***************************************************************************)
(* Effect specification: effects of every duration applied to the player   *)
(* and the goblin, ticked by processAllEffects, with a projectile that can *)
(* take the goblin out of the world while its effects run                  *)
(***************************************************************************)
EffectDurations == {1, 2, 3}
AppliedEffects == {"burn", "regeneration", "stun", "slow"}

EffectInit ==
    /\ heap = <<>>
    /\ pushed = <<>>
    /\ currentTime = 0
    /\ nextAction = [e \in Actors |-> 0]
    /\ active = [e \in Actors |-> TRUE]
    /\ entities = Actors
    /\ worldPlayer = Player
    /\ CombatStart(1, FALSE, TRUE, 0, 0,
                   [FullHealth EXCEPT ![Player] = 450, !["m1"] = 50], {})
    /\ call = NoCall

EffectNext ==
    \/ \E e \in Targets, name \in AppliedEffects, d \in EffectDurations :
          ApplyEffect(e, name, d)
    \/ EffectTick
    \/ ProjectileHit("m1", 50)

EffectSpec == EffectInit /\ [][EffectNext]_vars

(***************************************************************************)
(* Skill specification: skill experience gained in any order, interleaved  *)
(* with the experience that levels the player up                           *)
(***************************************************************************)
\* skills the model trains and the amounts one call may grant: the amounts
\* CombatSystem grants and one that is worth several skill levels
TrainedSkills == {"1h_slash", "dodge"}
SkillXp == {25, 200}
\* character experience one award may grant
LevelXp == {100}

\* SkillsSystem.gainSkillExperience on the player
GainSkillExperience(skillName, experience) ==
    LET w == gainSkillExperience(Cur, Player, skillName, experience)
    IN /\ Commit(w)
       /\ call' = [NoCall EXCEPT !.op = "gainSkillExperience", !.actor = Player,
                                 !.skill = skillName, !.amount = experience,
                                 !.prevLevel = skills[skillName].level,
                                 !.ok = w.msgs > 0, !.msgs = w.msgs]
       /\ UNCHANGED <<schedVars, now, equipment, steps>>

\* CharacterProgress.addExperience on the player
AddExperience(experience, inc) ==
    /\ level.value < MaxLevel
    /\ Commit(addExperience(Cur, Player, experience, inc))
    /\ call' = [NoCall EXCEPT !.op = "addExperience", !.actor = Player,
                              !.amount = experience]
    /\ UNCHANGED <<schedVars, now, equipment, steps>>

SkillInit ==
    /\ heap = <<>>
    /\ pushed = <<>>
    /\ currentTime = 0
    /\ nextAction = [e \in Actors |-> 0]
    /\ active = [e \in Actors |-> TRUE]
    /\ entities = Actors
    /\ worldPlayer = Player
    /\ CombatStart(1, FALSE, FALSE, 0, 0, FullHealth, {})
    /\ call = NoCall

SkillNext ==
    \/ \E s \in TrainedSkills, x \in SkillXp : GainSkillExperience(s, x)
    \/ \E x \in LevelXp, inc \in StatIncreases : AddExperience(x, inc)

SkillSpec == SkillInit /\ [][SkillNext]_vars

(***************************************************************************)
(* Component specification: the operations of the skill specification,     *)
(* and the same systems called on an entity that was created without any   *)
(* component (no health, stats, equipment, skills or level)                *)
(***************************************************************************)
Bare == "bare"

\* CharacterProgress.addExperience as it is called: without a level
\* component the guard returns { newLevel: levelComponent.value }, which
\* reads a field of the missing component and throws
addExperienceCall(w, e, experience, inc) ==
    IF e = Bare THEN [w |-> w, raised |-> TRUE]
    ELSE [w |-> addExperience(w, e, experience, inc), raised |-> FALSE]

\* attackTarget on the bare entity: canAttack and the cooldown as ever,
\* rollToHit falls back to Math.random() < 0.5, checkBlock and calculateDodge
\* find nothing, applyDamage and isDead skip the missing health
attackBareTarget(w, attacker, rolls) ==
    IF ~w.active[attacker] \/ onCooldown(w, attacker) THEN NoAttack(w)
    ELSE LET w1 == createSwingAnimation([w EXCEPT !.lastAttack[attacker] = now,
                                                  !.msgs = @ + 1])
         IN IF rolls.hit < 500
            THEN [NoAttack(gainWeaponSkillExperience(w1, attacker))
                    EXCEPT !.ret = TRUE, !.resolved = TRUE]
            ELSE [NoAttack(w1) EXCEPT !.resolved = TRUE]

\* applyEffectTick on an entity: applyDamageEffect and applyHealEffect test
\* the health component first
applyEffectTickOn(w, e, effect) ==
    IF e = Bare THEN w ELSE applyEffectTick(w, e, effect)

\* the history of these calls keeps the entity as target and whether the
\* call returned (ok)
BareAttack(attacker, rolls) ==
    LET a == attackBareTarget(Cur, attacker, rolls)
    IN /\ Commit(a.w)
       /\ call' = [NoCall EXCEPT !.op = "attackTarget", !.actor = attacker,
                                 !.target = Bare, !.ok = TRUE,
                                 !.resolved = a.resolved, !.ret = a.ret]
       /\ UNCHANGED <<schedVars, now, equipment, steps>>

BareSkillExperience(skillName, experience) ==
    /\ Commit(gainSkillExperience(Cur, Bare, skillName, experience))
    /\ call' = [NoCall EXCEPT !.op = "gainSkillExperience", !.target = Bare,
                              !.skill = skillName, !.ok = TRUE]
    /\ UNCHANGED <<schedVars, now, equipment, steps>>

BareExperience(experience, inc) ==
    LET r == addExperienceCall(Cur, Bare, experience, inc)
    IN /\ Commit(r.w)
       /\ call' = [NoCall EXCEPT !.op = "addExperience", !.target = Bare,
                                 !.amount = experience, !.ok = ~r.raised]
       /\ UNCHANGED <<schedVars, now, equipment, steps>>

BareEffectTick(name) ==
    /\ Commit(applyEffectTickOn(Cur, Bare, NewEffect(name, 1)))
    /\ call' = [NoCall EXCEPT !.op = "applyEffectTick", !.target = Bare,
                              !.skill = name, !.ok = TRUE]
    /\ UNCHANGED <<schedVars, now, equipment, steps>>

ComponentNext ==
    \/ GainSkillExperience("dodge", 200)
    \/ \E x \in LevelXp, inc \in StatIncreases : AddExperience(x, inc)
    \/ \E attacker \in {Player, "m1"}, hit \in {0, 990} :
          BareAttack(attacker, [hit |-> hit, block |-> 0, dodge |-> 0])
    \/ \E s \in TrainedSkills : BareSkillExperience(s, 200)
    \/ \E x \in LevelXp : BareExperience(x, [s \in StatNames |-> 0])
    \/ \E name \in EffectNames : BareEffectTick(name)

ComponentSpec == SkillInit /\ [][ComponentNext]_vars

(***************************************************************************)
(* Hit roll specification: rollToHit over the stats and skills of attacker *)
(* and defender                                                            *)
(***************************************************************************)
\* a skill record at a given level: the thresholds follow the level-up loop
SkillAt(lv) ==
    [skillLevelUps([NewSkill EXCEPT !.experience = 100000], lv) EXCEPT !.experience = 0]

\* the player at level 12 (23 stat points spent on dexterity and strength)
\* with a given dexterity, agility and dodge skill
HitDexterities == {10, 12, 33}
HitAgilities == {10, 15}
HitDodgeLevels == {0, 2, 30}
HitLevel == 12

\* Math.random() * 100 in tenths of a percent, around the values the clamp
\* and the templates put the threshold at
HitDraws == {0, 49, 50, 79, 80, 499, 500, 949, 950, 999}

HitPairs == {p \in Actors \X Actors : (p[1] = Player) # (p[2] = Player)}

HitInit ==
    /\ heap = <<>>
    /\ pushed = <<>>
    /\ currentTime = 0
    /\ nextAction = [e \in Actors |-> 0]
    /\ active = [e \in Actors |-> TRUE]
    /\ entities = Actors
    /\ worldPlayer = Player
    /\ pos = [e \in Actors |-> StartPos(e)]
    /\ now = StartNow
    /\ lastAttack = [e \in Actors |-> 0]
    /\ health = [e \in Actors |->
                    IF e = Player
                    THEN [current |-> TemplateMaxHealth(e) + 40 * (HitLevel - 1),
                          max |-> TemplateMaxHealth(e) + 40 * (HitLevel - 1)]
                    ELSE [current |-> TemplateMaxHealth(e), max |-> TemplateMaxHealth(e)]]
    /\ \E d \in HitDexterities, a \in HitAgilities :
          stats = [e \in Actors |->
                     IF e = Player
                     THEN [TemplateStats(e) EXCEPT !.dexterity = d, !.agility = a,
                                                   !.strength = 10 + 33 - d]
                     ELSE TemplateStats(e)]
    /\ equipment = [e \in Actors |-> IF e = Player THEN PlayerEquipment(1, FALSE)
                                     ELSE MonsterEquipment(e, FALSE)]
    /\ \E dl \in HitDodgeLevels :
          skills = [s \in SkillNames |-> IF s = "dodge" THEN SkillAt(dl) ELSE NewSkill]
    /\ level = [value |-> HitLevel, experience |-> getExperienceForLevel(HitLevel)]
    /\ gold = 0
    /\ corpses = [m \in Monsters |-> <<>>]
    /\ corpseReg = [m \in Monsters |-> 0]
    /\ swings = 0
    /\ isResting = FALSE
    /\ droppedGold = 0
    /\ restTimers = 0
    /\ notice = [m \in Monsters |-> NewNotice]
    /\ isVisible = [m \in Monsters |-> FALSE]
    /\ qualified = [m \in Monsters |-> 0]
    /\ gameOver = FALSE
    /\ exits = {}
    /\ steps = 0
    /\ effects = [e \in Actors |-> <<>>]
    /\ deathCount = [e \in Actors |-> 0]
    /\ projectile = NoProjectile
    /\ call = NoCall

\* CombatSystem.rollToHit(attacker, target) with the draw roll
RollToHit(attacker, target, roll) ==
    /\ call' = [NoCall EXCEPT !.op = "rollToHit", !.actor = attacker,
                              !.target = target, !.hitRoll = roll,
                              !.ok = rollToHit(Cur, attacker, target, roll)]
    /\ UNCHANGED <<schedVars, worldVars, combatVars>>

HitNext == \E p \in HitPairs, roll \in HitDraws : RollToHit(p[1], p[2], roll)

HitSpec == HitInit /\ [][HitNext]_vars

(***************************************************************************)
(* Attack resolution specification: attacks between the player and the     *)
(* goblin with every draw on record, the player armed or unarmed           *)
(***************************************************************************)
\* draws of rollToHit (tenths of a percent): a hit, a miss between the
\* chance with and without the goblin's target dodging, a miss in any case
ResolveHitRolls == {0, 490, 990}

\* the draws attackTarget consumes: the block draw only after a hit on a
\* shield bearer, the dodge draw only after a miss
ResolveRolls(attacker, target) ==
    IF ~canAttack(Cur, attacker, target) \/ onCooldown(Cur, attacker)
    THEN {[hit |-> 0, block |-> 0, dodge |-> 0]}
    ELSE {r \in [hit : ResolveHitRolls, block : BlockRolls, dodge : DodgeRolls] :
            IF rollToHit(Cur, attacker, target, r.hit)
            THEN r.dodge = 0 /\ (~equipment[target].shield => r.block = 0)
            ELSE r.block = 0}

\* a call of attackTarget with its draws and the raw damage on record
ResolveAttack(attacker, target, rolls, inc) ==
    LET r == attackTarget(Cur, attacker, target, rolls, inc) IN
    /\ Commit(r.w)
    /\ call' = [NoCall EXCEPT !.op = "attackTarget", !.actor = attacker,
                              !.target = target, !.ok = r.ret,
                              !.resolved = r.resolved, !.blocked = r.blocked,
                              !.damage = r.damage,
                              !.raw = IF r.resolved
                                      THEN calculateDamage(Cur, attacker, target)
                                      ELSE 0,
                              !.hpBefore = health[target].current,
                              !.applied = r.applied,
                              !.hitRoll = rolls.hit, !.blockRoll = rolls.block,
                              !.dodgeRoll = rolls.dodge,
                              !.msgs = r.w.msgs]
    /\ UNCHANGED <<schedVars, now, equipment, steps>>

\* InventorySystem.moveItem(player, 'primary', 'inv_0'): the sword goes from
\* the primary slot into the empty first inventory slot
MoveItem ==
    /\ equipment[Player].weapon
    /\ equipment' = [equipment EXCEPT ![Player] =
                        [@ EXCEPT !.weapon = FALSE, !.weaponDamage = 0,
                                  !.weaponSpeed = 100]]
    /\ call' = [NoCall EXCEPT !.op = "moveItem", !.actor = Player, !.ok = TRUE]
    /\ UNCHANGED <<schedVars, worldVars, pos, now, lastAttack, health, stats,
                   skills, level, gold, corpses, corpseReg, swings, isResting,
                   effects, droppedGold, restTimers, noticeVars, gameOver, exits, steps, deathCount, projectile>>

\* the player with a shield and no armour, or with leather armour, no shield
\* and one kill short of level 2 against a goblin at 2 health
ResolveScenarios ==
    {[armor |-> 0, shield |-> TRUE, slashXp |-> 18, xp |-> 0, m1 |-> 100],
     [armor |-> 1, shield |-> FALSE, slashXp |-> 0, xp |-> 90, m1 |-> 20]}

ResolveInit ==
    /\ heap = <<>>
    /\ pushed = <<>>
    /\ currentTime = 0
    /\ nextAction = [e \in Actors |-> 0]
    /\ active = [e \in Actors |-> TRUE]
    /\ entities = Actors
    /\ worldPlayer = Player
    /\ \E sc \in ResolveScenarios :
          CombatStart(sc.armor, sc.shield, TRUE, sc.slashXp, sc.xp,
                      [FullHealth EXCEPT !["m1"] = sc.m1], {})
    /\ call = NoCall

ResolveNext ==
    \/ \E d \in Ticks : Tick(d)
    \/ \E p \in AttackPairs :
          \E rolls \in ResolveRolls(p[1], p[2]), inc \in DrawsFor(p[2]) :
             ResolveAttack(p[1], p[2], rolls, inc)
    \/ MoveItem

ResolveSpec == ResolveInit /\ [][ResolveNext]_vars

(***************************************************************************)
(* Notice specification: the player walks the corridor while the goblin    *)
(* takes its turns and the field of view is refreshed                      *)
(***************************************************************************)
\* the draws of a monster turn: a step is drawn only by an evaluated monster
\* that has not noticed the player after the notice update
NoticeMoves(m) ==
    IF evaluated(Cur, m) /\ ~noticeUpdate(Cur, m).notice[m].hasNoticed
    THEN {"none"} \cup DOMAIN directions
    ELSE {"none"}

\* MovementSystem.processEntity on an active monster of the world
ProcessMonsterMovement(m, move) ==
    /\ m \in entities /\ active[m]
    /\ LET w == processMonsterMovement(Cur, m, move) IN
       /\ Commit(w)
       /\ call' = [NoCall EXCEPT !.op = "processMonsterMovement", !.actor = m,
                                 !.resolved = evaluated(Cur, m) /\ inAlert(Cur, m),
                                 !.ok = w.notice[m].hasNoticed /\ ~notice[m].hasNoticed,
                                 !.prevLevel = notice[m].noticeTimer,
                                 !.msgs = w.msgs]
    /\ UNCHANGED <<schedVars, now, equipment, steps>>

\* Game.updateMonsterVisibility
UpdateMonsterVisibility ==
    /\ Commit(updateMonsterVisibility(Cur))
    /\ call' = [NoCall EXCEPT !.op = "updateMonsterVisibility"]
    /\ UNCHANGED <<schedVars, now, equipment, steps>>

\* Game.movePlayer(direction); the corridor of this specification has no
\* hallway exit (exits is empty), so no new area is entered
MovePlayer(dir) ==
    /\ worldPlayer = Player
    /\ LET w == movePlayer(Cur, dir, {}) IN
       /\ Commit(w)
       /\ call' = [NoCall EXCEPT !.op = "movePlayer", !.actor = Player,
                                 !.ok = canMoveTo(Cur, Player,
                                                  pos[Player][1] + directions[dir][1],
                                                  pos[Player][2] + directions[dir][2]),
                                 !.target = occupant(Cur, Player,
                                                     pos[Player][1] + directions[dir][1],
                                                     pos[Player][2] + directions[dir][2]),
                                 !.msgs = w.msgs]
    /\ UNCHANGED <<schedVars, now, equipment, steps>>

\* the goblin at one end of the corridor, the player at the other, out of
\* the field of view; no orc on this map
NoticeInit ==
    /\ heap = <<>>
    /\ pushed = <<>>
    /\ currentTime = 0
    /\ nextAction = [e \in Actors |-> 0]
    /\ active = [e \in Actors |-> e # "m2"]
    /\ entities = {Player, "m1"}
    /\ worldPlayer = Player
    /\ pos = [e \in Actors |-> IF e = Player THEN <<9, 1>>
                               ELSE IF e = "m1" THEN <<0, 0>> ELSE <<0, 1>>]
    /\ now = StartNow
    /\ lastAttack = [e \in Actors |-> 0]
    /\ health = [e \in Actors |-> [current |-> TemplateMaxHealth(e),
                                   max |-> TemplateMaxHealth(e)]]
    /\ stats = [e \in Actors |-> TemplateStats(e)]
    /\ equipment = [e \in Actors |-> IF e = Player THEN PlayerEquipment(1, FALSE)
                                     ELSE MonsterEquipment(e, FALSE)]
    /\ skills = [s \in SkillNames |-> NewSkill]
    /\ level = [value |-> 1, experience |-> 0]
    /\ gold = 0
    /\ corpses = [m \in Monsters |-> <<>>]
    /\ corpseReg = [m \in Monsters |-> 0]
    /\ swings = 0
    /\ isResting = FALSE
    /\ droppedGold = 0
    /\ restTimers = 0
    /\ notice = [m \in Monsters |-> NewNotice]
    /\ isVisible = [m \in Monsters |-> FALSE]
    /\ qualified = [m \in Monsters |-> 0]
    /\ gameOver = FALSE
    /\ exits = {}
    /\ steps = 0
    /\ effects = [e \in Actors |-> <<>>]
    /\ deathCount = [e \in Actors |-> 0]
    /\ projectile = NoProjectile
    /\ call = NoCall

NoticeNext ==
    \/ \E m \in Monsters : \E move \in NoticeMoves(m) : ProcessMonsterMovement(m, move)
    \/ UpdateMonsterVisibility
    \/ \E dir \in DOMAIN directions : MovePlayer(dir)

NoticeSpec == NoticeInit /\ [][NoticeNext]_vars

(***************************************************************************)
(* Projectile specification: the player walks the corridor and fires       *)
(* projectiles, each processed by ProjectileSystem.processEntity while it  *)
(* is active; the goblin stands at the end of the corridor                 *)
(***************************************************************************)
\* projectileData of the projectiles fired: an arrow (damage 5, range 10)
\* and a short-lived one without a damage field (range 1)
ProjectileData == {[damage |-> 50, range |-> 10], [damage |-> 0, range |-> 1]}
\* the cells aimed at: the goblin's, the far end, the wall cell, the corner
ProjectileTargets == {<<0, 0>>, <<9, 0>>, <<4, 0>>, <<0, 1>>}

\* ProjectileSystem.createProjectile by an active caster; one projectile is
\* in flight at a time
CreateProjectile(caster, data, targetX, targetY) ==
    /\ caster \in entities /\ active[caster]
    /\ ~projectile.registered
    /\ Commit(createProjectile(Cur, caster, data, targetX, targetY))
    /\ call' = [NoCall EXCEPT !.op = "createProjectile", !.actor = caster]
    /\ UNCHANGED <<schedVars, now, equipment, steps>>

\* Game.processEntityAction on the projectile entity (case 'projectile')
ProcessProjectile ==
    /\ projectile.registered /\ projectile.active
    /\ \E w \in {projectileProcessEntity(Cur)} :
          /\ Commit(w)
          /\ call' = [NoCall EXCEPT !.op = "projectileProcessEntity",
                                    !.actor = projectile.ownerId,
                                    !.applied = w.projectile.hits - projectile.hits]
    /\ UNCHANGED <<schedVars, now, equipment, steps>>

ProjectileNext ==
    \/ \E dir \in {"north", "south", "east", "west"} : MovePlayer(dir)
    \/ \E data \in ProjectileData : \E t \in ProjectileTargets :
          CreateProjectile(Player, data, t[1], t[2])
    \/ ProcessProjectile

ProjectileSpec == NoticeInit /\ [][ProjectileNext]_vars

(***************************************************************************)
(* Game specification: the turn loop of Game.processTurn with the keys of  *)
(* Game.handleInput pressed between the turns.  The combat queue stays off *)
(* and the inventory closed; the wall clock stands still, so every actor   *)
(* has one attack.  A swing animation leaves the world after 8 updates,    *)
(* more turns than a play of this specification has.                       *)
(***************************************************************************)
\* turns are played up to this scheduler time
MaxTurnTime == 500

\* the scheduler side of spawnLevelContent: scheduler.addEntity(monster,
\* Math.random() * 1000) for every spawned monster; delay holds the draws
spawnLevelContent(s, act, spawn, delay) ==
    LET add(t, m) == IF m \in spawn THEN schedule(t, act, m, delay[m]) ELSE t
    IN add(add(s, "m1"), "m2")

\* CombatSystem.processMonsterCombat: a visible monster within 1.5 of the
\* player attacks it
processMonsterCombat(w, m, rolls, inc) ==
    IF ~w.isVisible[m] \/ w.worldPlayer = NoEntity THEN NoAttack(w)
    ELSE LET dx == w.pos[m][1] - w.pos[Player][1]
             dy == w.pos[m][2] - w.pos[Player][2]
         IN IF 4 * (dx * dx + dy * dy) <= 9
            THEN attackTarget(w, m, Player, rolls, inc)
            ELSE NoAttack(w)

\* EffectSystem.canAct: no active effect whose name is 'stun'
canAct(w, e) == ~\E i \in DOMAIN w.effects[e] : w.effects[e][i].name = "stun"

\* Game.processEntityAction with the combat queue off: the player's turn is
\* empty, a monster moves and then fights
processEntityAction(w, e, move, rolls, inc) ==
    IF ~w.active[e] \/ ~canAct(w, e) \/ e = Player THEN NoAttack(w)
    ELSE processMonsterCombat(processMonsterMovement(w, e, move), e, rolls, inc)

\* variant of checkGameState that never ends the game
checkGameState_NoLoss(w) ==
    IF ~\E m \in Monsters : m \in w.entities /\ w.active[m]
    THEN [w EXCEPT !.msgs = @ + 1]
    ELSE w

\* Game.checkGameState
checkGameState(w) ==
    IF w.health[Player].current <= 0
    THEN [w EXCEPT !.gameOver = TRUE, !.msgs = @ + 1]
    ELSE IF ~\E m \in Monsters : m \in w.entities /\ w.active[m]
    THEN [w EXCEPT !.msgs = @ + 1]
    ELSE w

\* Game.processTurn; the history keeps the actor that was popped (actor), the
\* priority of its node (prio), whether the turn ran at all (ok), whether the
\* actor resolved an attack (resolved) and the states of the turn
ProcessTurn(move, rolls, inc) ==
    IF gameOver
    THEN /\ call' = [NoCall EXCEPT !.op = "processTurn"]
         /\ UNCHANGED <<schedVars, worldVars, combatVars>>
    ELSE \E w0 \in {updateMonsterVisibility(Cur)},
            r \in {getNextEntity(heap, active, <<>>)} :
         \E t \in {IF r.ret = NoEntity THEN currentTime ELSE nextAction[r.ret]},
            a \in {IF r.ret = NoEntity THEN NoAttack(w0)
                   ELSE processEntityAction(w0, r.ret, move, rolls, inc)} :
         \E s \in {schedule([heap |-> r.heap, currentTime |-> t,
                              nextAction |-> nextAction],
                             a.w.active, r.ret, NullDelay)},
            w2 \in {checkGameState(processAllEffects(a.w, 1))} :
            /\ t <= MaxTurnTime
            /\ Commit(w2)
            /\ heap' = s.heap
            /\ currentTime' = t
            /\ nextAction' = s.nextAction
            /\ call' = [NoCall EXCEPT !.op = "processTurn", !.actor = r.ret,
                                      !.prio = r.prio, !.ok = TRUE,
                                      !.resolved = a.resolved,
                                      !.blocked = r.ret # NoEntity /\ ~canAct(w0, r.ret),
                                      !.hpBefore = health[Player].current,
                                      !.msgs = w2.msgs]
            /\ UNCHANGED <<pushed, now, equipment, steps>>

\* the keys of handleInput the model presses
Keys == {"d", " ", "r", "x"}
KeyDirection(key) ==
    IF key = "w" THEN "north" ELSE IF key = "s" THEN "south"
    ELSE IF key = "a" THEN "west" ELSE "east"
MoveKeys == {"w", "a", "s", "d"}

\* the monster whose corpse entity Game.lootCorpse finds: on the player's
\* cell or on one of the eight cells around it
CorpsesNear(w) ==
    {m \in Monsters :
        /\ w.corpseReg[m] # 0
        /\ w.corpses[m][w.corpseReg[m]].active
        /\ Abs(w.corpses[m][w.corpseReg[m]].pos[1] - w.pos[Player][1]) <= 1
        /\ Abs(w.corpses[m][w.corpseReg[m]].pos[2] - w.pos[Player][2]) <= 1}

\* Game.interactWithChest on a map without a chest
interactWithChest(w) == [interruptResting(w) EXCEPT !.msgs = @ + 1]

\* the space key: Game.lootCorpse on the corpse of m (NoEntity: none found),
\* then Game.interactWithChest unless a corpse was looted
lootOrInteract(w, m, g) ==
    IF m = NoEntity THEN interactWithChest(w)
    ELSE LET r == lootCorpse(w, m, w.corpseReg[m], g)
         IN IF r.ret THEN r.w
            ELSE interactWithChest([r.w EXCEPT !.msgs = @ + 1])

\* the monster Game.playerAttackAdjacent finds around the player
MonstersNear(w) ==
    {m \in Monsters :
        /\ m \in w.entities /\ w.active[m]
        /\ w.pos[m] # w.pos[Player]
        /\ Abs(w.pos[m][1] - w.pos[Player][1]) <= 1
        /\ Abs(w.pos[m][2] - w.pos[Player][2]) <= 1}

\* Game.playerAttackAdjacent: the rest is interrupted first, then the weapon
\* cooldown 6400 / weapon.speed is tested, then the monster is attacked
playerAttackAdjacent(w, m, rolls, inc) ==
    LET w1 == interruptResting(w)
        eq == w1.equipment[Player]
        ready == IF eq.weapon
                 THEN (now - w1.lastAttack[Player]) * eq.weaponSpeed
                          >= baseAttackSpeed * 100
                 ELSE now - w1.lastAttack[Player] >= baseAttackSpeed
    IN IF ~ready THEN [w1 EXCEPT !.msgs = @ + 1]
       ELSE IF m = NoEntity THEN [w1 EXCEPT !.msgs = @ + 1]
       ELSE attackTarget(w1, Player, m, rolls, inc).w

\* the keydown listener of setupInputHandling with handleInput behind it;
\* m is the corpse or monster the handler finds, the other arguments are the
\* draws of the handler
KeyDown(key, m, spawn, delay, g, rolls, inc) ==
    /\ steps < MaxSteps
    /\ steps' = steps + 1
    /\ IF gameOver
       THEN /\ call' = [NoCall EXCEPT !.op = "keydown", !.skill = key]
            /\ UNCHANGED <<schedVars, worldVars, pos, now, lastAttack, health, stats,
                           equipment, skills, level, gold, corpses, corpseReg,
                           swings, isResting, effects, droppedGold, restTimers,
                           noticeVars, gameOver, exits, deathCount, projectile>>
       ELSE \E w \in {IF key \in MoveKeys
                       THEN movePlayer(Cur, KeyDirection(key), spawn)
                       ELSE IF key = " " THEN lootOrInteract(Cur, m, g)
                       ELSE IF key = "r" THEN restPlayer(Cur)
                       ELSE playerAttackAdjacent(Cur, m, rolls, inc)} :
            \E s \in {IF exits # {} /\ w.exits = {}
                       THEN spawnLevelContent(Sched, w.active, spawn, delay)
                       ELSE Sched} :
               /\ Len(s.heap) <= MaxHeap
               /\ Commit(w)
               /\ heap' = s.heap
               /\ nextAction' = s.nextAction
               /\ call' = [NoCall EXCEPT !.op = "keydown", !.skill = key,
                                         !.ok = TRUE, !.target = m,
                                         !.resolved = exits # {} /\ w.exits = {},
                                         !.blocked = isResting,
                                         !.hpBefore = health[Player].current,
                                         !.msgs = w.msgs]
               /\ UNCHANGED <<currentTime, pushed, now, equipment>>

\* the plays start next to the goblin, with both nearly dead, or with the
\* goblin at the far end of the corridor and a hallway exit next to the player
GameScenarios ==
    {[player |-> <<1, 1>>, m1 |-> <<2, 1>>, hp |-> 20, m1hp |-> 20, exits |-> {}],
     [player |-> <<2, 1>>, m1 |-> <<9, 0>>, hp |-> 500, m1hp |-> 100, exits |-> {<<3, 1>>}]}

\* Math.random() * 1000 of spawnLevelContent
SpawnDelays == {0, 500}

\* Game.init: generateLevel spawns and schedules the goblin, createPlayer
\* schedules the player with delay 0
GameInit ==
    /\ \E sc \in GameScenarios, d \in SpawnDelays :
          /\ heap = push(push(<<>>, "m1", d), Player, 0)
          /\ nextAction = [e \in Actors |-> IF e = "m1" THEN d ELSE 0]
          /\ pos = [e \in Actors |-> IF e = Player THEN sc.player
                                     ELSE IF e = "m1" THEN sc.m1 ELSE <<0, 1>>]
          /\ health = [e \in Actors |->
                         [current |-> IF e = Player THEN sc.hp
                                      ELSE IF e = "m1" THEN sc.m1hp
                                      ELSE TemplateMaxHealth(e),
                          max |-> TemplateMaxHealth(e)]]
          /\ exits = sc.exits
    /\ pushed = <<>>
    /\ currentTime = 0
    /\ active = [e \in Actors |-> e # "m2"]
    /\ entities = {Player, "m1"}
    /\ worldPlayer = Player
    /\ now = StartNow
    /\ lastAttack = [e \in Actors |-> 0]
    /\ stats = [e \in Actors |-> TemplateStats(e)]
    /\ equipment = [e \in Actors |-> IF e = Player THEN PlayerEquipment(1, FALSE)
                                     ELSE MonsterEquipment(e, TRUE)]
    /\ skills = [s \in SkillNames |-> NewSkill]
    /\ level = [value |-> 1, experience |-> 0]
    /\ gold = 0
    /\ corpses = [m \in Monsters |-> <<>>]
    /\ corpseReg = [m \in Monsters |-> 0]
    /\ swings = 0
    /\ isResting = FALSE
    /\ droppedGold = 0
    /\ restTimers = 0
    /\ notice = [m \in Monsters |-> NewNotice]
    /\ isVisible = [m \in Monsters |-> FALSE]
    /\ qualified = [m \in Monsters |-> 0]
    /\ gameOver = FALSE
    /\ steps = 0
    /\ effects = [e \in Actors |-> <<>>]
    /\ deathCount = [e \in Actors |-> 0]
    /\ projectile = NoProjectile
    /\ call = NoCall

\* the draws of a turn and of a key, as far as the handler uses them: an
\* attack that lands and one that misses
NoRolls == [hit |-> 0, block |-> 0, dodge |-> 0]
GameRolls == {[hit |-> 0, block |-> 50, dodge |-> 990],
              [hit |-> 990, block |-> 50, dodge |-> 990]}
NoIncrease == [s \in StatNames |-> 0]
TurnMoves ==
    LET w0 == updateMonsterVisibility(Cur)
        e == getNextEntity(heap, active, <<>>).ret
    IN IF /\ e \in Monsters
          /\ canAct(w0, e)
          /\ evaluated(w0, e)
          /\ ~noticeUpdate(w0, e).notice[e].hasNoticed
       THEN {"none", "west"}
       ELSE {"none"}
TurnRolls ==
    LET e == getNextEntity(heap, active, <<>>).ret
    IN IF e \in Monsters /\ ~gameOver /\ lastAttack[e] = 0 /\ worldPlayer # NoEntity
       THEN GameRolls ELSE {NoRolls}
KeyTargets(key) ==
    IF key = " " /\ CorpsesNear(Cur) # {} THEN CorpsesNear(Cur)
    ELSE IF key = "x" /\ MonstersNear(Cur) # {} THEN MonstersNear(Cur)
    ELSE {NoEntity}
KeyRolls(key) ==
    IF key = "x" /\ MonstersNear(Cur) # {} /\ lastAttack[Player] = 0 /\ ~gameOver
    THEN GameRolls ELSE {NoRolls}

GameNext ==
    \/ \E move \in TurnMoves, rolls \in TurnRolls : ProcessTurn(move, rolls, NoIncrease)
    \/ \E key \in Keys :
          \E m \in KeyTargets(key), rolls \in KeyRolls(key),
             delay \in {[x \in Monsters |-> d] :
                           d \in IF exits # {} THEN SpawnDelays ELSE {0}} :
             \E inc \in (IF m \in Monsters THEN DrawsFor(m) ELSE {NoIncrease}),
                g \in (IF key = " " /\ m \in Monsters
                       THEN GoldRolls(corpses[m][corpseReg[m]]) ELSE {0}) :
                KeyDown(key, m, {"m2"}, delay, g, rolls, inc)
    \/ \E e \in {Player, "m1"} :
          ApplyEffect(e, IF e = Player THEN "burn" ELSE "stun", 2)
    \/ RestTimer

GameSpec == GameInit /\ [][GameNext]_vars

\* the turn loop alone, with debuffs cast on the goblin between the turns
TurnNext ==
    \/ \E move \in TurnMoves, rolls \in TurnRolls : ProcessTurn(move, rolls, NoIncrease)
    \/ \E name \in {"stun", "slow"} : ApplyEffect("m1", name, 2)

TurnSpec == GameInit /\ [][TurnNext]_vars

\* the scheduler side of a turn of Game.processTurn that dispatches an actor:
\* getNextEntity, setCurrentTime(entity.getNextActionTime()), schedule(entity)
TurnDispatch ==
    /\ ~gameOver
    /\ \E r \in {getNextEntity(heap, active, <<>>)} :
          /\ r.ret # NoEntity
          /\ nextAction[r.ret] <= MaxTurnTime
          /\ \E s \in {schedule([heap |-> r.heap, currentTime |-> nextAction[r.ret],
                                 nextAction |-> nextAction],
                                active, r.ret, NullDelay)} :
                /\ heap' = s.heap
                /\ currentTime' = s.currentTime
                /\ nextAction' = s.nextAction

\* Game.gameLoop runs processTurn on every animation frame while the game
\* is running and not paused, so a turn that can dispatch an actor is taken;
\* the fairness is stated on the scheduler's fields, which every such turn
\* changes and no other step of the loop does
LoopSpec == TurnSpec /\ WF_<<heap, currentTime, nextAction>>(TurnDispatch)

\* the scheduler holds a node of actor e with priority t
hasEntry(e, t) == \E i \in DOMAIN heap : heap[i].item = e /\ heap[i].priority = t

(***************************************************************************)
(* Scheduler properties                                                    *)
(***************************************************************************)
\* C1: successive successful getNextEntity calls never move the scheduler's
\* currentTime backwards (actors come out in non-decreasing timestamp order).
C1_PopTimeNonDecreasing ==
    [][(call'.op = "getNextEntity" /\ call'.ret # NoEntity)
          => currentTime' >= currentTime]_vars

\* C2: getNextEntity never returns an inactive actor; every entry it pops on
\* the way is one of an inactive actor and is gone from the heap, and it gives
\* up only when the heap is empty.
C2_InactiveNeverReturned ==
    call.op = "getNextEntity" =>
        /\ (call.ret # NoEntity => active[call.ret])
        /\ \A i \in DOMAIN call.discarded : ~active[call.discarded[i]]
        /\ (call.ret = NoEntity => heap = <<>>)

\* an actor was deactivated while queued, skipped, and an active one returned
C2_Witness ==
    /\ call.op = "getNextEntity"
    /\ call.ret # NoEntity
    /\ Len(call.discarded) > 0

(***************************************************************************)
(* Combat properties                                                       *)
(***************************************************************************)
\* C3: attackTarget on an inactive attacker or target, on attacker = target,
\* or on a target whose health is already 0 returns false and changes
\* nothing: no health, no lastAttack, no skill experience, no message, no
\* entity added to or removed from the world.
C3_InvalidAttackIsNoOp ==
    [][\A a, t \in Actors :
         (/\ call'.op = "attackTarget" /\ call'.actor = a /\ call'.target = t
          /\ (~active[a] \/ ~active[t] \/ a = t \/ health[t].current <= 0))
         => /\ ~call'.ok
            /\ call'.msgs = 0
            /\ UNCHANGED <<health, lastAttack, skills, level, gold, active, entities,
                           worldPlayer, swings, corpses, corpseReg>>]_vars

\* an active attacker was turned away from an active target with health 0
C3_Witness ==
    /\ call.op = "attackTarget" /\ ~call.ok
    /\ call.actor = Player /\ call.target \in Monsters
    /\ active[call.actor] /\ active[call.target]
    /\ health[call.target].current = 0

\* C4: a call made less than 6400 / swingSpeed ms after the attacker's last
\* resolved attack is rejected: it returns false, applies no damage, emits no
\* message and leaves lastAttack alone, so two calls closer than the gap give
\* at most one resolution.
C4_CooldownGate ==
    [][\A a \in Actors :
         (/\ call'.op = "attackTarget" /\ call'.actor = a
          /\ (now - lastAttack[a]) * equipmentCalculateDamage(Cur, a).swingSpeed
                < baseAttackSpeed * 10000)
         => /\ ~call'.ok /\ ~call'.resolved
            /\ call'.msgs = 0
            /\ UNCHANGED <<health, lastAttack, swings, skills>>]_vars

\* an attacker that has attacked before was held back from a valid target
C4_Witness ==
    /\ call.op = "attackTarget" /\ ~call.resolved
    /\ lastAttack[call.actor] > 0
    /\ canAttack(Cur, call.actor, call.target)

\* C5: a hit (attackTarget returns true) on a target with at least 1 health
\* takes at least 1 health (10 tenths) from it.
C5_HitAppliesAtLeastOne ==
    (call.op = "attackTarget" /\ call.ok /\ call.hpBefore >= 10)
        => call.applied >= 10

\* C7: when attackTarget takes a monster's health to 0, in that call death is
\* handled once: level x 10 experience to the player, one new unlooted corpse
\* with the monster's loot table at its position, the monster deactivated and
\* out of the world; a later attackTarget on that monster changes nothing.
C7_DeathHandledOnce ==
    [][\A m \in Monsters :
         /\ (/\ call'.op = "attackTarget" /\ call'.target = m /\ call'.ok
              /\ health[m].current > 0 /\ health'[m].current = 0)
            => /\ deathCount'[m] = deathCount[m] + 1
               /\ level'.experience = level.experience + MonsterLevel(m) * 10
               /\ Len(corpses'[m]) = Len(corpses[m]) + 1
               /\ corpses'[m][Len(corpses'[m])] =
                     [looted |-> FALSE, active |-> TRUE, pos |-> pos[m],
                      loot |-> LootTable(m), credited |-> 0]
               /\ corpseReg'[m] = Len(corpses'[m])
               /\ ~active'[m] /\ m \notin entities'
         /\ (call'.op = "attackTarget" /\ call'.target = m /\ deathCount[m] >= 1)
            => /\ ~call'.ok /\ ~call'.resolved
               /\ UNCHANGED <<health, lastAttack, skills, level, gold, active,
                              entities, swings, corpses, corpseReg, deathCount>>]_vars

\* the player's attack killed a monster: it is gone and its one corpse lies there
C7_Witness ==
    /\ call.op = "attackTarget" /\ call.ok /\ call.actor = Player
    /\ call.target \in Monsters
    /\ call.hpBefore > 0 /\ health[call.target].current = 0
    /\ deathCount[call.target] = 1
    /\ Len(corpses[call.target]) = 1

\* C8: handleDeath on an actor whose death was already handled and that is
\* out of the world awards no experience and creates no corpse.
C8_SecondDeathIsNoOp ==
    [][\A e \in Actors :
         (/\ call'.op = "handleDeath" /\ call'.actor = e
          /\ deathCount[e] >= 1 /\ ~active[e] /\ e \notin entities)
         => UNCHANGED <<level, corpses, corpseReg>>]_vars

\* C9: lootCorpse on a corpse already looted returns false and changes
\* nothing, and no corpse ever pays out gold more than once.
C9_LootIdempotent ==
    [][/\ \A m \in Monsters : \A i \in DOMAIN corpses[m] :
            (/\ call'.op = "lootCorpse" /\ call'.actor = m /\ call'.obj = i
             /\ corpses[m][i].looted)
            => /\ ~call'.ok
               /\ call'.msgs = 0
               /\ UNCHANGED <<gold, corpses, corpseReg, entities, active>>
       /\ \A m \in Monsters : \A i \in DOMAIN corpses'[m] :
            corpses'[m][i].credited <= 1]_vars

\* a looted corpse was looted again and gave nothing
C9_Witness ==
    /\ call.op = "lootCorpse" /\ ~call.ok
    /\ call.obj \in DOMAIN corpses[call.actor]
    /\ corpses[call.actor][call.obj].looted
    /\ gold > 0

\* C10: lootCorpse on a corpse not yet looted rolls a gold amount within the
\* loot table's [min, max], adds exactly that to the player's gold, marks the
\* corpse looted and leaves no corpse registered in the world under its id.
C10_LootPaysOnce ==
    [][\A m \in Monsters : \A i \in DOMAIN corpses[m] :
         (/\ call'.op = "lootCorpse" /\ call'.actor = m /\ call'.obj = i
          /\ ~corpses[m][i].looted)
         => /\ call'.ok
            /\ call'.amount >= LootTable(m).min /\ call'.amount <= LootTable(m).max
            /\ gold' = gold + call'.amount
            /\ corpses'[m][i].looted
            /\ corpseReg'[m] = 0
            /\ \A j \in DOMAIN corpses[m] :
                  j # i => corpses'[m][j].looted = corpses[m][j].looted]_vars

\* the registered corpse was looted: gold arrived and the corpse is gone
C10_Witness ==
    /\ call.op = "lootCorpse" /\ call.ok
    /\ gold = call.amount /\ gold > 0
    /\ corpses[call.actor][call.obj].looted
    /\ ~corpses[call.actor][call.obj].active
    /\ corpseReg[call.actor] = 0

\* C6: every actor's health.current stays within [0, health.max] through
\* attack damage, projectile damage, effect damage and heal ticks, rest heals,
\* level-up heals and the heal on entering a new area.
C6_HealthWithinBounds ==
    \A e \in Actors : health[e].current >= 0 /\ health[e].current <= health[e].max

\* after a level up raised health.max, the heal of a new area was cut off at it
C6_Witness ==
    /\ call.op = "enterNewArea"
    /\ level.value = 2
    /\ health[Player].max = 540
    /\ call.hpBefore > health[Player].max - 200
    /\ health[Player].current = health[Player].max
    /\ \E m \in Monsters : health[m].current = 0

(***************************************************************************)
(* Skill properties                                                        *)
(***************************************************************************)
\* C11: whatever the order of skill experience gains and level-ups of the
\* owner, no skill's level exceeds five times the owner's level
C11_SkillLevelWithinCap ==
    \A s \in SkillNames : skills[s].level <= level.value * 5

\* a skill stands at level 10 with its owner at level 2, after a gain that
\* carried more experience than the remaining levels cost
C11_Witness ==
    /\ call.op = "gainSkillExperience"
    /\ level.value = 2
    /\ skills[call.skill].level = 10
    /\ skills[call.skill].experience >= skills[call.skill].maxExperience

\* C12: a gainSkillExperience call on a skill whose level equals five times
\* the owner's level changes neither the level, the experience nor the
\* threshold of any skill, and returns false
C12_CappedGainIsNoOp ==
    [][(/\ call'.op = "gainSkillExperience"
        /\ skills[call'.skill].level = level.value * 5)
       => (/\ skills' = skills
           /\ level' = level
           /\ ~call'.ok
           /\ call'.msgs = 0)]_vars

\* a gain was requested for a skill standing at the cap of a level 1 owner
C12_Witness ==
    /\ call.op = "gainSkillExperience"
    /\ level.value = 1
    /\ call.prevLevel = 5
    /\ skills[call.skill].level = 5
    /\ ~call.ok

\* C13: no step lowers a skill's level; with the owner at level 2 a gain that
\* fills the threshold of a skill at level 5 to 9 raises that skill, to at
\* most 10
C13_CapRisesWithOwner ==
    [][/\ \A s \in SkillNames : skills'[s].level >= skills[s].level
       /\ (/\ call'.op = "gainSkillExperience"
           /\ level.value = 2
           /\ skills[call'.skill].level \in 5..9
           /\ skills[call'.skill].experience + call'.amount
                 >= skills[call'.skill].maxExperience)
          => (/\ skills'[call'.skill].level > skills[call'.skill].level
              /\ skills'[call'.skill].level <= 10
              /\ call'.ok)]_vars

\* a skill that stood capped at 5 was raised to 10 by one gain once the owner
\* had reached level 2
C13_Witness ==
    /\ call.op = "gainSkillExperience"
    /\ call.ok
    /\ level.value = 2
    /\ call.prevLevel = 5
    /\ skills[call.skill].level = 10

(***************************************************************************)
(* Attack resolution properties                                            *)
(***************************************************************************)
\* C14: an attack hits exactly when the draw is below
\* clamp(50 + (attacker dexterity - 10) * 2 - dodge chance of the defender,
\* 5, 95); a draw below 5 hits, a draw of 95 or more misses, and with
\* dexterity 10 against agility 10 and no dodge skill the threshold is 50
C14_HitBelowClampedChance ==
    call.op = "rollToHit" =>
        LET dex == stats[call.actor].dexterity
            dodge == calculateDodge(Cur, call.target)
            chance == 500 + (dex - 10) * 20 - dodge
            clamped == IF chance < 50 THEN 50 ELSE IF chance > 950 THEN 950 ELSE chance
        IN /\ call.ok <=> call.hitRoll < clamped
           /\ call.hitRoll < 50 => call.ok
           /\ call.hitRoll >= 950 => ~call.ok
           /\ (/\ dex = 10
               /\ stats[call.target].agility = 10
               /\ hasSkills(call.target) => skills["dodge"].level = 0)
              => (call.ok <=> call.hitRoll < 500)

\* a draw of 95.0 missed although dexterity alone put the chance above 95,
\* or a draw of 4.9 hit although the dodge chance put it below 5
C14_Witness ==
    /\ call.op = "rollToHit"
    /\ \/ /\ call.hitRoll = 950 /\ ~call.ok
          /\ 500 + (stats[call.actor].dexterity - 10) * 20
                 - calculateDodge(Cur, call.target) > 950
       \/ /\ call.hitRoll = 49 /\ call.ok
          /\ 500 + (stats[call.actor].dexterity - 10) * 20
                 - calculateDodge(Cur, call.target) < 50

\* C15: an attack is blocked only if it hit and the defender bears a shield,
\* and then exactly when the block draw is below 10 plus twice the block
\* skill level; a blocked attack deals floor(damage / 2) and the defender's
\* block skill gains 5 experience unless it stands at its cap
C15_BlockHalvesDamage ==
    [][call'.op = "attackTarget" =>
          LET t == call'.target
              sk == skills["block"]
          IN /\ call'.blocked <=>
                   (/\ call'.ok
                    /\ equipment[t].shield
                    /\ call'.blockRoll < 10 + (IF hasSkills(t) THEN 2 * sk.level ELSE 0))
             /\ call'.blocked =>
                   /\ call'.damage = 10 * (call'.raw \div 20)
                   /\ (hasSkills(t) /\ sk.level < level.value * 5)
                        => \/ skills'["block"].level > sk.level
                           \/ skills'["block"].experience = sk.experience + 5
             /\ (call'.ok /\ ~call'.blocked) => call'.damage = call'.raw]_vars

\* the player blocked the goblin's sword with the shield: raw damage 5,
\* applied floor(2.5) = 2, block experience gained
C15_Witness ==
    /\ call.op = "attackTarget"
    /\ call.blocked
    /\ call.target = Player
    /\ equipment[Player].shield
    /\ call.raw = 50
    /\ call.damage = 20
    /\ call.applied = 20
    /\ skills["block"].experience >= 5

\* C16: every attackTarget call that returns true for an attacker with a
\* skills component adds 2 experience to the attacker's weapon skill and 1
\* to its offense skill, unless that skill stands at its cap
C16_HitTrainsWeaponAndOffense ==
    [][(call'.op = "attackTarget" /\ call'.ok /\ hasSkills(call'.actor))
       => /\ skills["1h_slash"].level < level.value * 5
               => \/ skills'["1h_slash"].level > skills["1h_slash"].level
                  \/ skills'["1h_slash"].experience = skills["1h_slash"].experience + 2
          /\ skills["offense"].level < level.value * 5
               => \/ skills'["offense"].level > skills["offense"].level
                  \/ skills'["offense"].experience = skills["offense"].experience + 1]_vars

\* C17: a resolved miss adds experience to the defender's dodge skill only
\* if the same hit draw would have been a hit with a dodge chance of 0
C17_DodgeXpOnlyWhenDodgeCausedMiss ==
    [][(/\ call'.op = "attackTarget"
        /\ call'.resolved
        /\ ~call'.ok
        /\ skills'["dodge"] # skills["dodge"])
       => LET chance == 500 + (stats[call'.actor].dexterity - 10) * 20
              clamped == IF chance < 50 THEN 50
                         ELSE IF chance > 950 THEN 950 ELSE chance
          IN call'.hitRoll < clamped]_vars

(***************************************************************************)
(* Notice properties                                                       *)
(***************************************************************************)
\* C18: a monster that was unaware and has since taken only evaluated turns
\* with the player inside its alert radius and in line of sight is hostile
\* exactly from the noticeDelay-th of these turns on
C18_HostileOnDelayThTurn ==
    \A m \in Monsters :
        qualified[m] > 0 =>
            /\ notice[m].hasNoticed <=> qualified[m] >= noticeDelay
            /\ ~notice[m].hasNoticed => notice[m].noticeTimer = qualified[m]

\* the goblin turned hostile on its tenth qualifying turn in a row
C18_Witness ==
    /\ call.op = "processMonsterMovement"
    /\ call.actor = "m1"
    /\ call.ok
    /\ call.prevLevel = noticeDelay - 1
    /\ qualified["m1"] = noticeDelay
    /\ notice["m1"].hasNoticed

\* C19: a suspicious monster (0 < noticeTimer < noticeDelay, not hostile)
\* that takes a turn with the player out of its alert radius or out of its
\* line of sight is unaware with noticeTimer 0 after that turn
C19_SuspicionResetsOnBreak ==
    [][\A m \in Monsters :
          (/\ call'.op = "processMonsterMovement"
           /\ call'.actor = m
           /\ ~notice[m].hasNoticed
           /\ notice[m].noticeTimer > 0
           /\ notice[m].noticeTimer < noticeDelay
           /\ ~inAlert(Cur, m))
          => notice'[m] = NewNotice]_vars

\* C20: a hostile monster is still hostile after each of its turns, also
\* with the player out of its alert radius or out of its line of sight
C20_HostileStaysHostile ==
    [][\A m \in Monsters :
          (/\ call'.op = "processMonsterMovement"
           /\ call'.actor = m
           /\ notice[m].hasNoticed)
          => notice'[m].hasNoticed]_vars

\* C21: when the field of view is refreshed and a monster that was visible is
\* now farther than playerFOVRadius from the player, a suspicious monster is
\* unaware with noticeTimer 0 afterwards and a hostile monster is still hostile
C21_FovExitKeepsHostile ==
    [][\A m \in Monsters :
          (/\ call'.op = "updateMonsterVisibility"
           /\ m \in entities /\ active[m]
           /\ isVisible[m]
           /\ ~isVisible'[m])
          => IF notice[m].hasNoticed THEN notice'[m].hasNoticed
             ELSE notice'[m] = NewNotice]_vars

C24_ScheduleInactiveIsNoOp ==
    [][/\ (call'.op = "schedule" /\ ~call'.ok)
           => UNCHANGED <<heap, nextAction, currentTime>>
       /\ (call'.op = "getNextEntity" /\ call'.ret # NoEntity) => active'[call'.ret]]_vars

\* schedule was called on a removed actor while the heap held entries
C24_Witness ==
    /\ call.op = "schedule"
    /\ ~call.ok
    /\ call.resolved
    /\ \E e \in Actors : ~active[e]
    /\ Len(heap) > 0

\* C28: after a getNextEntity that returns an actor, currentTime is the
\* priority of the heap node that was popped for it
C28_ClockIsPoppedPriority ==
    [][(call'.op = "getNextEntity" /\ call'.ret # NoEntity)
       => currentTime' = call'.prio]_vars

\* C30: pop returns the item of the node that was pushed first among the
\* nodes in the heap that carry the popped priority
C30_TiesPopInInsertionOrder ==
    [][(call'.op = "pop" /\ call'.ok)
       => \E k \in 1..Len(pushed) :
             /\ pushed[k].priority = call'.prio
             /\ pushed[k].item = call'.ret
             /\ \A j \in 1..(k - 1) : pushed[j].priority # call'.prio]_vars

\* C22: in a turn, a monster that moves, that advances or changes its notice
\* state by its own action, or that attacks, stands within the field-of-view
\* radius 8 of the player; a monster outside the radius does none of these
C22_ActingMonsterIsInView ==
    [][(call'.op = "processTurn" /\ call'.ok)
       => \A m \in Monsters :
             (\/ pos'[m] # pos[m]
              \/ notice'[m] # updateMonsterVisibility(Cur).notice[m]
              \/ (call'.actor = m /\ call'.resolved))
             => withinDistance(Cur, m, Player, playerFOVRadius)]_vars

\* C25: an actor that carries the stun effect of the database when it is
\* popped does not move, does not attack and is rescheduled
C25_StunnedActorSkipsItsTurn ==
    [][(/\ call'.op = "processTurn"
        /\ call'.ok
        /\ call'.actor # NoEntity
        /\ \E i \in DOMAIN effects[call'.actor] :
              effects[call'.actor][i].name = getEffect("stun").name)
       => /\ pos'[call'.actor] = pos[call'.actor]
          /\ ~call'.resolved
          /\ \E i \in DOMAIN heap' : heap'[i].item = call'.actor]_vars

\* C27: a key that makes the resting player act (a move attempt, an attack,
\* looting a corpse or interacting with a chest) ends the rest, and the rest
\* timers stay as they are until rest is started again
C27_PlayerActionCancelsRest ==
    [][(/\ call'.op = "keydown"
        /\ call'.ok
        /\ isResting
        /\ call'.skill \in {"a", "d", " ", "x"})
       => ~isResting']_vars

C29_OnePendingEntryPerActor ==
    [][/\ \A e \in Actors : Cardinality({i \in DOMAIN heap' : heap'[i].item = e}) <= 1
       /\ (call'.op = "processTurn" /\ call'.ok /\ call'.actor # NoEntity
             /\ active'[call'.actor])
          => Cardinality({i \in DOMAIN heap' : heap'[i].item = call'.actor}) = 1]_vars

\* after the level transition the player, the goblin of the old level and
\* the orc of the new one are pending, and an actor was rescheduled
C29_Witness ==
    /\ call.op = "processTurn"
    /\ call.ok
    /\ call.actor # NoEntity
    /\ exits = {}
    /\ "m2" \in entities
    /\ \A e \in Actors : \E i \in DOMAIN heap : heap[i].item = e

\* C31: after a turn no active actor of the world has health 0, and an actor
\* whose health reached 0 in the turn has had its death handled once and is
\* no longer active
C31_DeadActorsAreSwept ==
    [][(call'.op = "processTurn" /\ call'.ok)
       => \A e \in Actors :
             /\ (e \in entities' /\ active'[e]) => health'[e].current > 0
             /\ (health[e].current > 0 /\ health'[e].current <= 0)
                => (deathCount'[e] = deathCount[e] + 1 /\ ~active'[e])]_vars

\* C36: the actor a turn dispatches is registered in the world
C36_DispatchedActorIsRegistered ==
    [][(call'.op = "processTurn" /\ call'.ok /\ call'.actor # NoEntity)
       => call'.actor \in entities]_vars

\* C37: a monster whose turn resolves an attack on the player is hostile
\* (hasNoticed) when it attacks
C37_OnlyHostileMonstersAttack ==
    [][(call'.op = "processTurn" /\ call'.ok /\ call'.actor \in Monsters
          /\ call'.resolved)
       => notice'[call'.actor].hasNoticed]_vars

\* the effects of a list that are left after one more tick, and the health
\* after the ticks of the list from position i on
EffectsLeft(seq) ==
    LET ticked == [i \in DOMAIN seq |-> [seq[i] EXCEPT !.remaining = @ - 1]]
        more(effect) == effect.remaining >= 1
    IN SelectSeq(ticked, more)
RECURSIVE HealthAfterTicks(_, _, _, _)
HealthAfterTicks(h, max, seq, i) ==
    IF i > Len(seq) THEN h
    ELSE HealthAfterTicks(IF seq[i].type = "damage"
                          THEN (IF h > seq[i].amount THEN h - seq[i].amount ELSE 0)
                          ELSE IF seq[i].type = "heal"
                          THEN (IF h + seq[i].amount < max THEN h + seq[i].amount ELSE max)
                          ELSE h,
                          max, seq, i + 1)

C33_SlowLengthensTheDelay ==
    [][(call'.op = "processTurn" /\ call'.ok /\ call'.actor # NoEntity
          /\ active'[call'.actor])
       => LET e == call'.actor
              slow == getEffect("slow")
              slowed == \E i \in DOMAIN effects[e] : effects[e][i].name = slow.name
          IN nextAction'[e] - currentTime'
                = IF slowed
                  THEN Max(100, 100000 \div (SpeedTenths(e) * slow.amount))
                  ELSE Max(100, 10000 \div SpeedTenths(e))]_vars

\* C34: the turn of a hostile monster moves it by the greedy rule: nowhere
\* when it is within 1.5 of the player; else onto the diagonal cell toward
\* the player when both deltas are non-zero and the cell is free; else one
\* cell along the dominant axis when that is free; else one cell along the
\* other axis when that is free; else nowhere
C34_HostileMonsterStepsGreedily ==
    [][(call'.op = "processMonsterMovement" /\ call'.resolved
          /\ notice[call'.actor].hasNoticed)
       => LET m == call'.actor
              x == pos[m][1]
              y == pos[m][2]
              dx == pos[Player][1] - x
              dy == pos[Player][2] - y
              sx == IF dx = 0 THEN 0 ELSE Sign(dx)
              sy == IF dy = 0 THEN 0 ELSE Sign(dy)
              free(c) == c # <<x, y>> /\ canMoveTo(Cur, m, c[1], c[2])
              first == IF Abs(dx) >= Abs(dy) THEN <<x + sx, y>> ELSE <<x, y + sy>>
              second == IF Abs(dx) >= Abs(dy) THEN <<x, y + sy>> ELSE <<x + sx, y>>
          IN pos'[m] = IF 4 * (dx * dx + dy * dy) <= 9 THEN <<x, y>>
                       ELSE IF dx # 0 /\ dy # 0 /\ free(<<x + sx, y + sy>>)
                       THEN <<x + sx, y + sy>>
                       ELSE IF free(first) THEN first
                       ELSE IF free(second) THEN second
                       ELSE <<x, y>>]_vars

\* C39: at most one rest timer is pending for the player
C39_OneRestTimerPending == restTimers <= 1

\* C35: a call on an entity without the component it works on returns
\* normally and leaves health, level, stats and the registry as they were;
\* skill or character experience aimed at the entity changes no skill
C35_MissingComponentIsSkipped ==
    [][(call'.target = Bare)
       => /\ call'.ok
          /\ UNCHANGED <<health, level, stats, active, entities, gold>>
          /\ call'.op # "attackTarget" => UNCHANGED skills]_vars

\* C40: processEntity removes an in-flight projectile only when it was on its
\* target cell, its next cell was out of bounds or impassable, it shares its
\* cell with an active entity other than itself and its owner, or its
\* distanceTraveled has reached its range; otherwise it advances one cell
\* toward its target and stays active; it damages at most one target
C40_ProjectileLeavesOnlyOnAHit ==
    [][(call'.op = "projectileProcessEntity")
       => LET p == projectile
              q == projectile'
              dx == p.targetX - p.x
              dy == p.targetY - p.y
              nx == p.x + projectileStep(dx)
              ny == p.y + projectileStep(dy)
              reached == dx = 0 /\ dy = 0
              stopped == ~reached /\ ~isValidPosition(nx, ny)
              shares == \E o \in entities :
                           /\ active[o] /\ o # p.ownerId
                           /\ pos[o] = <<q.x, q.y>>
              spent == q.distanceTraveled >= q.range
          IN /\ ~q.active => (reached \/ stopped \/ shares \/ spent)
             /\ ~(reached \/ stopped \/ shares \/ spent)
                   => (q.active /\ q.x = nx /\ q.y = ny)
             /\ q.hits <= 1]_vars

\* C38: while the loop keeps running turns and the game is not over, an active
\* actor with a pending scheduler entry is eventually dispatched for that
\* entry (entries up to the time the turns are played to)
C38_PendingActorIsDispatched ==
    \A e \in {Player, "m1"} : \A t \in Delays :
        (hasEntry(e, t) /\ active[e] /\ ~gameOver)
           ~> \/ call.op = "processTurn" /\ call.actor = e /\ call.prio = t
              \/ gameOver
              \/ ~active[e]
\* the goblin, scheduled at 500 behind the player, is dispatched at 500 after
\* the player took its turn at 0 and was rescheduled
C38_Witness ==
    /\ call.op = "processTurn" /\ call.actor = "m1" /\ call.prio = 500
    /\ nextAction[Player] = 500 /\ hasEntry(Player, 500)
    /\ nextAction["m1"] = 1500
    /\ ~gameOver

====
